---- MODULE Spec2Model ----
(***************************************************************************)
(* Model of the audit-report generator: the raster pagination renderer     *)
(* (src/src/lib/generatePdf.ts), the grouping engine and the issue parser  *)
(* (src/src/lib/parseIssue.ts) and the structured document assembler       *)
(* (src/unnamed/part_001, generateDocx).                                   *)
(***************************************************************************)
EXTENDS Integers, Sequences, FiniteSets, TLC

VARIABLES
    (* generatePdf *)
    pc,                \* position of the generatePdf call
    issuePages,        \* the NodeList of .issue-page elements queried at the start
    idx,               \* loop variable i
    layoutHeight,      \* laid-out height (DOM px) of the render container
    currentPdfPage,
    elementPageStarts,
    tocStartPage,
    tocPagesUsed,
    tocLinks,
    canvases,          \* the canvas html2canvas produced for each unit so far
    pdf,               \* the jsPDF document: a sequence of pages, each a sequence of images
    issueIdToPage,
    annotations,       \* link annotations added by pdf.link
    surface,           \* the render overlay: "none", "attached", "removed"
    saved,             \* pdf.save was called
    container,         \* the children of the render container
    (* App and generateDocx *)
    issues,            \* the App's issue list
    sortEngine,        \* the engine's Array.prototype.sort algorithm
    grouped,           \* the value of the App's `grouped` memo
    preview,           \* the .issue-page elements of the rendered preview
    docx,              \* the document built by buildDocument
    (* markdown files *)
    filePc,            \* "editing", "file" (a .md file exists) or "parsed"
    edited,            \* the issue in the editor that downloadIssueMd writes out
    fileContent,       \* the content of the .md file
    parsed,            \* what parseIssue made of the file
    (* inline markdown *)
    inlineText,        \* the text of a field that is rendered
    html,              \* what inlineMarkdownToHtml made of it, for the preview
    runs,              \* what parseInlineMarkdown made of it, for the DOCX
    badges,            \* the colours of the severity badges, in the preview and in the DOCX
    call,              \* a call of translateText: its arguments, its position and its outcome
    slicing,           \* a call of addCanvasToPdf: its canvas, its position and its result
    (* handleExportPdf and handleExportDocx *)
    generating,        \* the App's `generating` state
    buttonsDisabled,   \* the disabled attribute of the two export buttons in the DOM
    exporting,         \* exports started whose setGenerating(false) is yet to run
    reported,          \* the handler caught an error and alerted
    docxPc,            \* position of the generateDocx call
    docxSaved,         \* saveAs was called with the packed document
    (* the App's list state and its persistence *)
    files,             \* the App's `files` state
    originals,         \* the App's `originals` state: _id -> snapshot
    nextIssueId,       \* the module-level counter
    uploads,           \* the processFiles calls in progress
    storage,           \* localStorage["audit-report-data"]
    saveTimer,         \* the pending auto-save timeout and the state its closure holds
    translating        \* the translateIssuePage calls in progress

pdfVars == <<pc, issuePages, idx, layoutHeight, currentPdfPage, elementPageStarts,
             tocStartPage, tocPagesUsed, tocLinks, canvases, pdf, issueIdToPage,
             annotations, surface, saved, container>>

appVars == <<issues, sortEngine, grouped, preview, docx>>

fileVars == <<filePc, edited, fileContent, parsed, inlineText, html, runs, badges, call, slicing>>

exportVars == <<generating, buttonsDisabled, exporting, reported, docxPc, docxSaved>>

listVars == <<files, originals, nextIssueId, uploads, storage, saveTimer, translating>>

vars == <<pdfVars, appVars, fileVars, exportVars, listVars>>

-----------------------------------------------------------------------------
(* Bounds of the model *)

MaxIssues == 2          \* issue pages in the preview of a PDF export
MaxList == 2            \* issues in the list given to groupByCategory

(* DOM heights (px) a unit can lay out to: one page ends at canvas row 2313 *)
DomHeights == {500, 1156, 1157, 2313, 2314, 3000}

(* vertical positions (DOM px) a TOC entry can be measured at *)
TocYs == {0, 1156, 1157, 2313, 2314}

-----------------------------------------------------------------------------
(* generatePdf.ts: constants *)

A4_WIDTH_MM == 210
A4_HEIGHT_MM == 297
MARGIN_TOP == 12
MARGIN_BOTTOM == 14
MARGIN_LEFT == 12
MARGIN_RIGHT == 12
USABLE_WIDTH == A4_WIDTH_MM - MARGIN_LEFT - MARGIN_RIGHT
USABLE_HEIGHT == A4_HEIGHT_MM - MARGIN_TOP - MARGIN_BOTTOM
RENDER_WIDTH_PX == 794
SCALE == 2

Min(a, b) == IF a <= b THEN a ELSE b

-----------------------------------------------------------------------------
(* jsPDF, as generatePdf uses it: a new document has one empty page, addPage *)
(* appends a page and makes it current, addImage draws on the current page.  *)

NewPdf == << <<>> >>
AddPage(doc) == Append(doc, <<>>)
AddImage(doc, img) == [doc EXCEPT ![Len(doc)] = Append(@, img)]

(* html2canvas(container, {scale: SCALE}): the canvas of a container laid out *)
(* RENDER_WIDTH_PX wide and h DOM pixels high.                                 *)
renderToCanvas(h) == [width |-> RENDER_WIDTH_PX * SCALE, height |-> h * SCALE]

-----------------------------------------------------------------------------
(* addCanvasToPdf *)

(* totalImgHeightMm <= USABLE_HEIGHT, with pxPerMm = canvasWidth / USABLE_WIDTH. *)
(* A zero width makes the quotient Infinity or NaN, and the comparison false.    *)
FitsOnePage(canvas) ==
    /\ canvas.width # 0
    /\ canvas.height * USABLE_WIDTH <= USABLE_HEIGHT * canvas.width

StripHeightPxNone(canvasWidth) == 0

(* Math.floor(USABLE_HEIGHT * pxPerMm) *)
StripHeightPx(canvasWidth) == (USABLE_HEIGHT * canvasWidth) \div USABLE_WIDTH

ThisStripPxWhole(stripHeightPx, remainingPx) == stripHeightPx

(* Math.min(stripHeightPx, remainingPx) *)
ThisStripPx(stripHeightPx, remainingPx) == Min(stripHeightPx, remainingPx)

RECURSIVE SliceStrips(_, _, _, _, _, _)
SliceStrips(doc, canvas, isFirstPage, unit, srcY, pageIndex) ==
    IF srcY < canvas.height
    THEN LET remainingPx == canvas.height - srcY
             thisStripPx == ThisStripPx(StripHeightPx(canvas.width), remainingPx)
             paged == IF ~isFirstPage \/ pageIndex > 0 THEN AddPage(doc) ELSE doc
             drawn == AddImage(paged, [unit |-> unit, srcY |-> srcY,
                                       heightPx |-> thisStripPx])
         IN  SliceStrips(drawn, canvas, isFirstPage, unit,
                         srcY + thisStripPx, pageIndex + 1)
    ELSE [pdf |-> doc, pagesUsed |-> pageIndex]

addCanvasToPdf(doc, canvas, isFirstPage, unit) ==
    IF FitsOnePage(canvas)
    THEN LET paged == IF ~isFirstPage THEN AddPage(doc) ELSE doc
         IN  [pdf |-> AddImage(paged, [unit |-> unit, srcY |-> 0,
                                       heightPx |-> canvas.height]),
              pagesUsed |-> 1]
    ELSE SliceStrips(doc, canvas, isFirstPage, unit, 0, 0)

-----------------------------------------------------------------------------
(* measureTocLinks: one rectangle per .toc-item, in DOM order, its y relative *)
(* to the container top. The layout engine decides the positions: entries     *)
(* follow one another downwards inside the laid-out container. Only the      *)
(* vertical position is kept (x, w, h do not take part in the page choice).  *)

IncreasingYs(n, h) ==
    { ys \in [1..n -> {y \in TocYs : y < h}] :
        \A a, b \in 1..n : a < b => ys[a] < ys[b] }

measureTocLinks(page, h) ==
    { [k \in 1..Len(page.tocItems) |-> [issueId |-> page.tocItems[k], y |-> ys[k]]] :
        ys \in IncreasingYs(Len(page.tocItems), h) }

-----------------------------------------------------------------------------
(* addTocLinkAnnotations. Lengths in mm are kept as numerators over          *)
(* RENDER_WIDTH_PX, so that link.y * DOM_PX_TO_MM is the integer             *)
(* link.y * USABLE_WIDTH.                                                    *)

(* Math.floor(linkYMm / USABLE_HEIGHT) *)
TocPageOffset(y) == (y * USABLE_WIDTH) \div (RENDER_WIDTH_PX * USABLE_HEIGHT)

(* MARGIN_TOP + (linkYMm - tocPageOffset * USABLE_HEIGHT), times RENDER_WIDTH_PX *)
YOnPage(y) ==
    MARGIN_TOP * RENDER_WIDTH_PX
      + (y * USABLE_WIDTH - TocPageOffset(y) * USABLE_HEIGHT * RENDER_WIDTH_PX)

RECURSIVE addTocLinkAnnotations(_, _, _, _, _)
addTocLinkAnnotations(tocStart, tocUsed, links, idToPage, k) ==
    IF k > Len(links) THEN <<>>
    ELSE LET link == links[k]
             rest == addTocLinkAnnotations(tocStart, tocUsed, links, idToPage, k + 1)
         IN  IF link.issueId \notin DOMAIN idToPage THEN rest
             ELSE IF TocPageOffset(link.y) >= tocUsed THEN rest
             ELSE <<[issueId |-> link.issueId,
                     page |-> tocStart + TocPageOffset(link.y),
                     yOnPage |-> YOnPage(link.y),
                     pageNumber |-> idToPage[link.issueId]]>> \o rest

-----------------------------------------------------------------------------
(* Array.prototype.sort(compareFn). The sort is stable; an order c[i][j] that *)
(* is not a consistent comparator leaves the result to the implementation,   *)
(* which is one of the engines below. The array is sorted as a permutation   *)
(* of its indices, c[i][j] being compareFn(a[i], a[j]).                      *)

SortEngines == {"linear", "binary"}

InsertAt(s, pos, x) == SubSeq(s, 1, pos) \o <<x>> \o SubSeq(s, pos + 1, Len(s))

(* insertion from the right: x moves left past every element greater than it *)
RECURSIVE LinearPosition(_, _, _, _)
LinearPosition(c, sorted, x, pos) ==
    IF pos > 0 /\ c[sorted[pos]][x] > 0
    THEN LinearPosition(c, sorted, x, pos - 1)
    ELSE pos

(* binary insertion: the position found by bisection on compareFn(x, a[mid]) *)
RECURSIVE BinaryPosition(_, _, _, _, _)
BinaryPosition(c, sorted, x, left, right) ==
    IF left < right
    THEN LET mid == left + ((right - left) \div 2)
         IN  IF c[x][sorted[mid + 1]] < 0
             THEN BinaryPosition(c, sorted, x, left, mid)
             ELSE BinaryPosition(c, sorted, x, mid + 1, right)
    ELSE left

RECURSIVE SortIndices(_, _, _, _)
SortIndices(engine, c, n, k) ==
    IF k = 0 THEN <<>>
    ELSE LET sorted == SortIndices(engine, c, n, k - 1)
             pos == IF engine = "binary"
                    THEN BinaryPosition(c, sorted, k, 0, k - 1)
                    ELSE LinearPosition(c, sorted, k, k - 1)
         IN  InsertAt(sorted, pos, k)

-----------------------------------------------------------------------------
(* parseIssue.ts: severityRank and groupByCategory *)

(* String.prototype.toLowerCase on the strings of the model *)
ToLowerCase(s) ==
    CASE s = "Critical" -> "critical"
      [] s = "HIGH" -> "high"
      [] s = "Medium" -> "medium"
      [] s = "Informational" -> "informational"
      [] s = "Constructor" -> "constructor"
      [] s = "Impact details" -> "impact details"
      [] s = "Description" -> "description"
      [] s = "Code example" -> "code example"
      [] s = "Example issue scenario" -> "example issue scenario"
      [] s = "Recommendation" -> "recommendation"
      [] OTHER -> s

(* SEVERITY_ORDER[s]: the object literal's own keys hold numbers; a key it   *)
(* inherits from Object.prototype holds an object; any other key is undefined *)
SeverityOrderLookup(s) ==
    CASE s = "critical" -> [type |-> "number", value |-> 0]
      [] s = "high" -> [type |-> "number", value |-> 1]
      [] s = "medium" -> [type |-> "number", value |-> 2]
      [] s = "low" -> [type |-> "number", value |-> 3]
      [] s = "info" -> [type |-> "number", value |-> 4]
      [] s = "informational" -> [type |-> "number", value |-> 4]
      [] s \in {"constructor", "__proto__"} -> [type |-> "object", value |-> 0]
      [] OTHER -> [type |-> "undefined", value |-> 0]

(* SEVERITY_ORDER[s] !== undefined ? SEVERITY_ORDER[s] : 5 *)
severityRank(severity) ==
    LET found == SeverityOrderLookup(ToLowerCase(severity))
    IN  IF found.type # "undefined" THEN found ELSE [type |-> "number", value |-> 5]

(* severityRank(a.overallRisk) - severityRank(b.overallRisk); a difference   *)
(* that is NaN is taken as +0 by the sort                                    *)
CompareSeverity(a, b) ==
    LET ra == severityRank(a.overallRisk)
        rb == severityRank(b.overallRisk)
    IN  IF ra.type = "number" /\ rb.type = "number" THEN ra.value - rb.value ELSE 0

(* a.localeCompare(b) on the category names of the model: the collation     *)
(* compares letters before case, so "api" < "Uncategorized" < "Web"          *)
CollationOrder == <<"api", "Uncategorized", "Web">>

CollationKey(s) == CHOOSE k \in 1..Len(CollationOrder) : CollationOrder[k] = s

LocaleCompare(a, b) == CollationKey(a) - CollationKey(b)

(* issue.category || "Uncategorized" *)
CategoryKey(issue) == IF issue.category # "" THEN issue.category ELSE "Uncategorized"

PushIssueNormalised(items, issue, cat) == Append(items, [issue EXCEPT !.category = cat])

(* map.get(cat).push(issue) *)
PushIssue(items, issue, cat) == Append(items, issue)

(* the Map after the loop: its entries in insertion order of the keys *)
RECURSIVE CategoryMap(_, _)
CategoryMap(list, n) ==
    IF n = 0 THEN <<>>
    ELSE LET map == CategoryMap(list, n - 1)
             issue == list[n]
             cat == CategoryKey(issue)
             has == \E k \in 1..Len(map) : map[k].category = cat
             map1 == IF has THEN map ELSE Append(map, [category |-> cat, issues |-> <<>>])
         IN  [k \in 1..Len(map1) |->
                IF map1[k].category = cat
                THEN [map1[k] EXCEPT !.issues = PushIssue(@, issue, cat)]
                ELSE map1[k]]

SortedByLocale(map) ==
    LET n == Len(map)
        c == [i \in 1..n |-> [j \in 1..n |-> LocaleCompare(map[i].category, map[j].category)]]
        perm == SortIndices(sortEngine, c, n, n)
    IN  [k \in 1..n |-> map[perm[k]]]

(* items.slice().sort((a, b) => severityRank(a.overallRisk) - severityRank(b.overallRisk)) *)
SortedBySeverity(items) ==
    LET n == Len(items)
        c == [i \in 1..n |-> [j \in 1..n |-> CompareSeverity(items[i], items[j])]]
        perm == SortIndices(sortEngine, c, n, n)
    IN  [k \in 1..n |-> items[perm[k]]]

groupByCategory(list) ==
    LET entries == SortedByLocale(CategoryMap(list, Len(list)))
    IN  [k \in 1..Len(entries) |->
            [category |-> entries[k].category,
             issues |-> SortedBySeverity(entries[k].issues)]]

(* the issues of a grouping, category after category *)
RECURSIVE GroupIssues(_)
GroupIssues(g) ==
    IF g = <<>> THEN <<>> ELSE Head(g).issues \o GroupIssues(Tail(g))

IdsOf(list) == [k \in 1..Len(list) |-> list[k]._id]

-----------------------------------------------------------------------------
(* Text. A string is a sequence of tokens, each token a run of characters:   *)
(* "\n" and " " are the line feed and the blank, "|" the pipe, "#", "##" and *)
(* "###" runs of hashes, "[fence]" the three backticks of a code fence; the  *)
(* literals of the template ("Impact:", "Issue title:", "Description", ...)  *)
(* and the words of a value ("a", "b", "js", ...) are one token each.        *)

IsWs(t) == t \in {" ", "\n"}

RECURSIVE TrimStart(_)
TrimStart(str) ==
    IF str # <<>> /\ IsWs(Head(str)) THEN TrimStart(Tail(str)) ELSE str

RECURSIVE TrimEnd(_)
TrimEnd(str) ==
    IF str # <<>> /\ IsWs(str[Len(str)])
    THEN TrimEnd(SubSeq(str, 1, Len(str) - 1))
    ELSE str

(* String.prototype.trim *)
Trim(str) == TrimEnd(TrimStart(str))

(* str.split(sep) *)
RECURSIVE SplitOn(_, _)
SplitOn(str, sep) ==
    IF \E k \in 1..Len(str) : str[k] = sep
    THEN LET k == CHOOSE i \in 1..Len(str) :
                     str[i] = sep /\ \A j \in 1..(i - 1) : str[j] # sep
         IN  <<SubSeq(str, 1, k - 1)>> \o SplitOn(SubSeq(str, k + 1, Len(str)), sep)
    ELSE <<str>>

(* parts.join("\n") *)
RECURSIVE JoinLines(_)
JoinLines(parts) ==
    IF parts = <<>> THEN <<>>
    ELSE IF Len(parts) = 1 THEN parts[1]
    ELSE parts[1] \o <<"\n">> \o JoinLines(Tail(parts))

MinOf(S) == CHOOSE x \in S : \A y \in S : x <= y
MaxOf(S) == CHOOSE x \in S : \A y \in S : x >= y

(* the positions where ^ matches under the m flag *)
LineStarts(text) == { p \in 1..Len(text) : p = 1 \/ text[p - 1] = "\n" }

(* the position after the last character of the line that holds position p *)
EndOfLine(text, p) ==
    MinOf({ q \in p..(Len(text) + 1) : q = Len(text) + 1 \/ text[q] = "\n" })

NoMatch == [ok |-> FALSE, value |-> <<>>, end |-> 0]

(* \s*(.+)$ under the m flag, tried at position q. \s also matches the line  *)
(* feed, so the greedy \s* runs over blank lines up to the first character   *)
(* that is not white space and (.+) takes that line to its end. When only    *)
(* white space follows, \s* gives characters back until (.+) can take a      *)
(* blank that ends a line: the last blank of the text.                       *)
ValueAfter(text, q) ==
    LET rest == { r \in q..Len(text) : ~IsWs(text[r]) }
        blanks == { j \in q..Len(text) : text[j] = " " }
    IN  IF rest # {}
        THEN LET r == MinOf(rest)
             IN  [ok |-> TRUE, value |-> SubSeq(text, r, EndOfLine(text, r) - 1),
                  end |-> EndOfLine(text, r)]
        ELSE IF blanks # {}
        THEN [ok |-> TRUE, value |-> <<" ">>, end |-> MaxOf(blanks) + 1]
        ELSE NoMatch

(* text.match(/^Key:\s*(.+)$/m), for positions from `from` on: the first line *)
(* start that holds the key and lets the rest of the pattern match           *)
MatchKey(text, key, from) ==
    LET hits == { p \in LineStarts(text) :
                    p >= from /\ text[p] = key /\ ValueAfter(text, p + 1).ok }
    IN  IF hits = {} THEN NoMatch ELSE ValueAfter(text, MinOf(hits) + 1)

(* text.match(/^#\s+Issue title:\s*(.+)$/m) *)
MatchTitle(text) ==
    LET keyAt(p) == MinOf({ q \in (p + 1)..(Len(text) + 1) :
                              q = Len(text) + 1 \/ ~IsWs(text[q]) })
        hits == { p \in LineStarts(text) :
                    /\ text[p] = "#"
                    /\ keyAt(p) > p + 1
                    /\ keyAt(p) <= Len(text)
                    /\ text[keyAt(p)] = "Issue title:"
                    /\ ValueAfter(text, keyAt(p) + 1).ok }
    IN  IF hits = {} THEN NoMatch ELSE ValueAfter(text, keyAt(MinOf(hits)) + 1)

(* content.match(/Evidence:\s*(.+)$/m): the key anywhere in the text *)
MatchEvidence(text) ==
    LET hits == { p \in 1..Len(text) :
                    text[p] = "Evidence:" /\ ValueAfter(text, p + 1).ok }
    IN  IF hits = {} THEN NoMatch ELSE ValueAfter(text, MinOf(hits) + 1)

-----------------------------------------------------------------------------
(* parseIssue.ts: parseIssue, splitSections and extractMainContent.          *)

(* the tokens made of word characters only, the ones \w* can take *)
WordTokens == {"a", "b", "js", "text", "High", "Medium", "New", "Untitled",
               "Uncategorized"}

IsWord(t) == t \in WordTokens

HashCount(t) == CASE t = "#" -> 1 [] t = "##" -> 2 [] t = "###" -> 3 [] OTHER -> 0

(* the run of hashes a line starts with, and what follows it *)
RECURSIVE LeadingHashes(_)
LeadingHashes(line) ==
    IF line # <<>> /\ HashCount(Head(line)) > 0
    THEN LET r == LeadingHashes(Tail(line))
         IN  [count |-> HashCount(Head(line)) + r.count, rest |-> r.rest]
    ELSE [count |-> 0, rest |-> line]

(* line.match(/^#{2,3}\s+(.+)$/) and headingMatch[1].trim().toLowerCase():   *)
(* two or three hashes, white space, and one more character at least         *)
HeadingMatch(line) ==
    LET h == LeadingHashes(line)
        key == Trim(h.rest)
    IN  [ok |-> h.count \in {2, 3} /\ Len(h.rest) >= 2 /\ h.rest[1] = " ",
         key |-> [i \in DOMAIN key |-> ToLowerCase(key[i])]]

NoKey == [set |-> FALSE, key |-> <<>>]

SetSection(sections, key, content) ==
    [k \in (DOMAIN sections) \cup {key} |-> IF k = key THEN content ELSE sections[k]]

SaveSection(sections, currentKey, currentLines) ==
    IF currentKey.set
    THEN SetSection(sections, currentKey.key, JoinLines(currentLines))
    ELSE sections

RECURSIVE SplitSectionsLoop(_, _, _, _)
SplitSectionsLoop(lines, currentKey, currentLines, sections) ==
    IF lines = <<>> THEN SaveSection(sections, currentKey, currentLines)
    ELSE LET m == HeadingMatch(Head(lines))
         IN  IF m.ok
             THEN SplitSectionsLoop(Tail(lines), [set |-> TRUE, key |-> m.key], <<>>,
                                    SaveSection(sections, currentKey, currentLines))
             ELSE IF currentKey.set
             THEN SplitSectionsLoop(Tail(lines), currentKey,
                                    Append(currentLines, Head(lines)), sections)
             ELSE SplitSectionsLoop(Tail(lines), currentKey, currentLines, sections)

splitSections(content) ==
    SplitSectionsLoop(SplitOn(content, "\n"), NoKey, <<>>, <<>>)

(* sections[key], a missing key and the empty string both being falsy *)
Section(sections, key) ==
    IF <<key>> \in DOMAIN sections THEN sections[<<key>>] ELSE <<>>

(* line.match(/^###\s+/) *)
IsSubHeading(line) ==
    LET h == LeadingHashes(line)
    IN  h.count = 3 /\ h.rest # <<>> /\ h.rest[1] = " "

RECURSIVE MainLines(_)
MainLines(lines) ==
    IF lines = <<>> \/ IsSubHeading(Head(lines)) THEN <<>>
    ELSE <<Head(lines)>> \o MainLines(Tail(lines))

extractMainContent(content) == JoinLines(MainLines(SplitOn(content, "\n")))

(* codeContent.match of the fenced block: a fence, a run of word characters,  *)
(* a line feed, the shortest text up to the next fence                       *)
MatchCodeBlock(text) ==
    LET langEnd(p) == MinOf({ q \in (p + 1)..(Len(text) + 1) :
                                q = Len(text) + 1 \/ ~IsWord(text[q]) })
        closing(p) == { k \in (langEnd(p) + 1)..Len(text) : text[k] = "[fence]" }
        hits == { p \in 1..Len(text) :
                    /\ text[p] = "[fence]"
                    /\ langEnd(p) <= Len(text)
                    /\ text[langEnd(p)] = "\n"
                    /\ closing(p) # {} }
    IN  IF hits = {} THEN [ok |-> FALSE, lang |-> <<>>, body |-> <<>>]
        ELSE LET p == MinOf(hits)
             IN  [ok |-> TRUE,
                  lang |-> SubSeq(text, p + 1, langEnd(p) - 1),
                  body |-> SubSeq(text, langEnd(p) + 1, MinOf(closing(p)) - 1)]

OrElse(value, default) == IF value # <<>> THEN value ELSE default

(* one entry of the loop over /^Additional Issue:\s*(.+)$/gm *)
ExtraRow(captured) ==
    LET parts == SplitOn(captured, "|")
    IN  [title |-> Trim(parts[1]),
         severity |-> Trim(IF Len(parts) >= 2 THEN OrElse(parts[2], <<"Medium">>)
                           ELSE <<"Medium">>)]

RECURSIVE ExecExtraRows(_, _)
ExecExtraRows(text, lastIndex) ==
    LET m == MatchKey(text, "Additional Issue:", lastIndex)
    IN  IF m.ok THEN <<ExtraRow(m.value)>> \o ExecExtraRows(text, m.end) ELSE <<>>

MetaValue(text, key) == Trim(MatchKey(text, key, 1).value)

parseIssue(markdownContent) ==
    LET sections == splitSections(markdownContent)
        descContent == Section(sections, "description")
        codeContent == Section(sections, "code example")
        codeBlockMatch == MatchCodeBlock(codeContent)
    IN  [title |-> Trim(MatchTitle(markdownContent).value),
         overallRisk |-> MetaValue(markdownContent, "Overall Risk:"),
         impact |-> MetaValue(markdownContent, "Impact:"),
         exploitability |-> MetaValue(markdownContent, "Exploitability:"),
         findingId |-> MetaValue(markdownContent, "Finding ID:"),
         component |-> MetaValue(markdownContent, "Component:"),
         category |-> MetaValue(markdownContent, "Category:"),
         status |-> MetaValue(markdownContent, "Status:"),
         impactDetails |-> Trim(Section(sections, "impact details")),
         description |-> Trim(extractMainContent(descContent)),
         evidence |-> Trim(MatchEvidence(descContent).value),
         codeExample |-> IF codeContent = <<>> THEN <<>>
                         ELSE IF codeBlockMatch.ok THEN Trim(codeBlockMatch.body)
                         ELSE Trim(codeContent),
         codeLanguage |-> IF codeContent # <<>> /\ codeBlockMatch.ok
                          THEN OrElse(codeBlockMatch.lang, <<"text">>)
                          ELSE <<>>,
         exampleScenario |-> Trim(Section(sections, "example issue scenario")),
         recommendation |-> Trim(Section(sections, "recommendation")),
         extraRows |-> ExecExtraRows(markdownContent, 1)]

(* App.tsx: issueToMarkdown *)
RECURSIVE ExtraRowLines(_)
ExtraRowLines(rows) ==
    IF rows = <<>> THEN <<>>
    ELSE << <<"Additional Issue:", " ">> \o Head(rows).title \o <<" ", "|", " ">>
            \o OrElse(Head(rows).severity, <<"Medium">>) >>
         \o ExtraRowLines(Tail(rows))

issueToMarkdown(issue) ==
    JoinLines(
        << <<"#", " ", "Issue title:", " ">> \o OrElse(issue.title, <<"Untitled">>),
           <<>>,
           <<"Overall Risk:", " ">> \o OrElse(issue.overallRisk, <<"Medium">>) >>
        \o ExtraRowLines(issue.extraRows)
        \o << <<"Impact:", " ">> \o OrElse(issue.impact, <<"Medium">>),
              <<"Exploitability:", " ">> \o OrElse(issue.exploitability, <<"Medium">>),
              <<"Finding ID:", " ">> \o OrElse(issue.findingId, <<"ABC-XXXXXX">>),
              <<"Component:", " ">> \o issue.component,
              <<"Category:", " ">> \o OrElse(issue.category, <<"Uncategorized">>),
              <<"Status:", " ">> \o OrElse(issue.status, <<"New">>),
              <<>>,
              <<"##", " ", "Impact details">>, <<>>, issue.impactDetails, <<>>,
              <<"##", " ", "Description">>, <<>>, issue.description, <<>> >>
        \o (IF issue.evidence # <<>>
            THEN << <<"Evidence:", " ">> \o issue.evidence, <<>> >> ELSE <<>>)
        \o (IF Trim(issue.codeExample) # <<>>
            THEN << <<"###", " ", "Code example">>, <<>>,
                    <<"[fence]">> \o issue.codeLanguage,
                    issue.codeExample, <<"[fence]">>, <<>> >>
            ELSE <<>>)
        \o << <<"###", " ", "Example issue scenario">>, <<>>, issue.exampleScenario, <<>>,
              <<"##", " ", "Recommendation">>, <<>>, issue.recommendation, <<>> >>)

(* the record parseIssue starts from *)
EmptyIssue ==
    [title |-> <<>>, overallRisk |-> <<>>, impact |-> <<>>, exploitability |-> <<>>,
     findingId |-> <<>>, component |-> <<>>, category |-> <<>>, status |-> <<>>,
     impactDetails |-> <<>>, description |-> <<>>, evidence |-> <<>>,
     codeExample |-> <<>>, codeLanguage |-> <<>>, exampleScenario |-> <<>>,
     recommendation |-> <<>>, extraRows |-> <<>>]

(* no file was uploaded and none written *)
(* no severity badge was drawn *)
NoBadges == [shown |-> FALSE, preview |-> <<>>, built |-> FALSE, docx |-> <<>>]

(* no call of translateText was made *)
NoCall ==
    [pc |-> "idle", via |-> "", available |-> FALSE, text |-> <<>>, targetLanguage |-> <<>>,
     status |-> "none", value |-> <<>>, error |-> "", requests |-> 0, alerts |-> 0]

(* addCanvasToPdf is not being followed *)
NoSlicing ==
    [pc |-> "none", canvas |-> [width |-> 0, height |-> 0], srcY |-> 0, pageIndex |-> 0,
     result |-> 0]

NoFile ==
    /\ filePc = "editing"
    /\ edited = EmptyIssue
    /\ fileContent = <<>>
    /\ parsed = EmptyIssue
    /\ inlineText = <<>>
    /\ html = [done |-> FALSE, out |-> <<>>]
    /\ runs = [done |-> FALSE, out |-> <<>>]
    /\ badges = NoBadges
    /\ call = NoCall
    /\ slicing = NoSlicing

-----------------------------------------------------------------------------
(* part_001 (generateDocx.ts): createTocPage and buildDocument, as far as    *)
(* the order of the entries, the anchors and the bookmarks go                *)

NoDocx == [toc |-> <<>>, sections |-> <<>>]

BookmarkIdShared(id) == <<"issue_", 0>>

(* `issue_${issue._id}` *)
BookmarkId(id) == <<"issue_", id>>

RECURSIVE createTocPage(_)
createTocPage(g) ==
    IF g = <<>> THEN <<>>
    ELSE <<[kind |-> "category", text |-> Head(g).category, anchor |-> <<>>]>>
         \o [k \in 1..Len(Head(g).issues) |->
                [kind |-> "link", text |-> "",
                 anchor |-> BookmarkId(Head(g).issues[k]._id)]]
         \o createTocPage(Tail(g))

SectionIssuesUngrouped(g, list) == list

(* grouped.forEach(group => group.issues.forEach(issue => ...)) *)
SectionIssues(g, list) == GroupIssues(g)

buildDocument(list) ==
    LET g == groupByCategory(list)
        secs == SectionIssues(g, list)
    IN  [toc |-> createTocPage(g),
         sections |-> [k \in 1..Len(secs) |-> [bookmark |-> BookmarkId(secs[k]._id)]]]

-----------------------------------------------------------------------------
(* App: the `grouped` memo and the preview rendered from it *)

WithPageNumber(issue, page) ==
    [f \in DOMAIN issue \cup {"_pageNumber"} |->
        IF f = "_pageNumber" THEN page ELSE issue[f]]

(* groups.map(group => ({...group, issues: group.issues.map(issue => { page++; ... })})) *)
RECURSIVE PagedGroups(_, _)
PagedGroups(g, page) ==
    IF g = <<>> THEN <<>>
    ELSE <<[category |-> Head(g).category,
            issues |-> [k \in 1..Len(Head(g).issues) |->
                           WithPageNumber(Head(g).issues[k], page + k)]]>>
         \o PagedGroups(Tail(g), page + Len(Head(g).issues))

GroupedMemo(list) == PagedGroups(groupByCategory(list), 0)

-----------------------------------------------------------------------------
(* generatePdf *)

(* the preview: the TOC page first, then one .issue-page per issue, in the   *)
(* order of the TOC entries; data-issue-id is the issue's _id                *)
PreviewPages(ids) ==
    <<[isToc |-> TRUE, issueId |-> 0, tocItems |-> ids]>> \o
    [k \in 1..Len(ids) |-> [isToc |-> FALSE, issueId |-> ids[k], tocItems |-> <<>>]]

InjectiveSeqs(n, S) ==
    { s \in [1..n -> S] : \A a, b \in 1..n : a # b => s[a] # s[b] }

PreviewIdLists == UNION { InjectiveSeqs(n, 1..MaxIssues) : n \in 1..MaxIssues }

(* page.cloneNode(true): a copy, the page itself is left as it is *)
cloneNode(page) == page

(* stylePage(clone): the export styling, applied to the element it is given *)
stylePage(pageEl) ==
    [f \in (DOMAIN pageEl) \cup {"exportStyled"} |->
        IF f = "exportStyled" THEN TRUE ELSE pageEl[f]]

CleanupSkipped(s) == s

(* cleanup: () => document.body.removeChild(wrapper) *)
cleanup(s) == "removed"

(* no export was started *)
NoExport ==
    /\ generating = FALSE
    /\ buttonsDisabled = FALSE
    /\ exporting = 0
    /\ reported = FALSE
    /\ docxPc = "idle"
    /\ docxSaved = FALSE

NoSaved == [present |-> FALSE, files |-> <<>>, issues |-> <<>>, originals |-> <<>>,
            nextIssueId |-> 0]

NoTimer == [armed |-> FALSE, files |-> <<>>, issues |-> <<>>, originals |-> <<>>]

(* the list state of an App that holds no file *)
NoList ==
    /\ files = <<>>
    /\ originals = <<>>
    /\ nextIssueId = 1
    /\ uploads = <<>>
    /\ storage = NoSaved
    /\ saveTimer = NoTimer
    /\ translating = <<>>

(* the heights a unit can be laid out with: a TOC is high enough for its     *)
(* entries to follow one another                                             *)
LayoutHeights(page) ==
    { h \in DomHeights : page.isToc => IncreasingYs(Len(page.tocItems), h) # {} }

NextPdfPageByOne(cur, pagesUsed) == cur + 1

(* currentPdfPage += pagesUsed *)
NextPdfPage(cur, pagesUsed) == cur + pagesUsed

(* issueIdToPage[dataIssueId] = elementPageStarts[i], later elements overwriting *)
BuildIssueIdToPage(pages, starts) ==
    LET ids == { pages[k].issueId : k \in { j \in 1..Len(pages) : pages[j].issueId # 0 } }
        last(id) == CHOOSE k \in 1..Len(pages) :
                       /\ pages[k].issueId = id
                       /\ \A j \in 1..Len(pages) : pages[j].issueId = id => j <= k
    IN  [id \in ids |-> starts[last(id)]]

InitPdf ==
    /\ pc = "idle"
    /\ issuePages \in { PreviewPages(ids) : ids \in PreviewIdLists }
    /\ idx = 0
    /\ layoutHeight = 0
    /\ currentPdfPage = 0
    /\ elementPageStarts = <<>>
    /\ tocStartPage = 0
    /\ tocPagesUsed = 0
    /\ tocLinks = <<>>
    /\ canvases = <<>>
    /\ pdf = <<>>
    /\ issueIdToPage = <<>>
    /\ annotations = <<>>
    /\ surface = "none"
    /\ saved = FALSE
    /\ container = <<>>
    /\ NoExport
    /\ NoList
    /\ issues = <<>>
    /\ sortEngine = "linear"
    /\ grouped = <<>>
    /\ preview = issuePages
    /\ docx = NoDocx
    /\ NoFile

(* generatePdf up to its first await: new jsPDF, createRenderSurface,        *)
(* querySelectorAll, and the first iteration of the loop as far as           *)
(* waitForPaint.                                                             *)
GeneratePdfBegin ==
    /\ pdf' = NewPdf
    /\ surface' = "attached"
    /\ currentPdfPage' = 1
    /\ tocStartPage' = 1
    /\ tocPagesUsed' = 0
    /\ tocLinks' = <<>>
    /\ idx' = 1
    /\ elementPageStarts' = <<1>>
    /\ layoutHeight' \in LayoutHeights(issuePages[1])
    /\ container' = <<stylePage(cloneNode(issuePages[1]))>>
    /\ canvases' = <<>>
    /\ issueIdToPage' = <<>>
    /\ annotations' = <<>>
    /\ saved' = FALSE
    /\ pc' = "paint"
    /\ UNCHANGED issuePages

(* generatePdf is called *)
GeneratePdfStart ==
    /\ pc = "idle"
    /\ GeneratePdfBegin
    /\ UNCHANGED <<appVars, fileVars, listVars, exportVars>>

(* the links are measured as soon as the paint is over, before the delay *)
PaintedMeasuring ==
    /\ pc = "paint"
    /\ pc' = "settle"
    /\ IF issuePages[idx].isToc
       THEN tocLinks' \in measureTocLinks(container[1], layoutHeight)
       ELSE UNCHANGED tocLinks
    /\ UNCHANGED <<issuePages, idx, layoutHeight, currentPdfPage, elementPageStarts,
                   tocStartPage, tocPagesUsed, canvases, pdf, issueIdToPage,
                   annotations, surface, saved, container>>
    /\ UNCHANGED <<appVars, fileVars, listVars, exportVars>>

(* await waitForPaint() resolves *)
Painted ==
    /\ pc = "paint"
    /\ pc' = "settle"
    /\ UNCHANGED <<issuePages, idx, layoutHeight, currentPdfPage, elementPageStarts,
                   tocStartPage, tocPagesUsed, tocLinks, canvases, pdf, issueIdToPage,
                   annotations, surface, saved, container>>
    /\ UNCHANGED <<appVars, fileVars, listVars, exportVars>>

(* the 100 ms settle delay ends; the TOC unit is measured; html2canvas starts *)
Settled ==
    /\ pc = "settle"
    /\ IF issuePages[idx].isToc
       THEN /\ tocStartPage' = currentPdfPage
            /\ tocLinks' \in measureTocLinks(container[1], layoutHeight)
       ELSE UNCHANGED <<tocStartPage, tocLinks>>
    /\ pc' = "raster"
    /\ UNCHANGED <<issuePages, idx, layoutHeight, currentPdfPage, elementPageStarts,
                   tocPagesUsed, canvases, pdf, issueIdToPage, annotations, surface,
                   saved, container>>
    /\ UNCHANGED <<appVars, fileVars, listVars, exportVars>>

(* html2canvas resolves: the canvas goes into the PDF, and either the next   *)
(* unit is cloned onto the surface or the document is finished and saved.    *)
Rasterized ==
    /\ pc = "raster"
    /\ LET canvas == renderToCanvas(layoutHeight)
           r == addCanvasToPdf(pdf, canvas, idx = 1, idx)
           used == IF issuePages[idx].isToc THEN r.pagesUsed ELSE tocPagesUsed
           cur == NextPdfPage(currentPdfPage, r.pagesUsed)
       IN  /\ canvases' = Append(canvases, canvas)
           /\ pdf' = r.pdf
           /\ tocPagesUsed' = used
           /\ currentPdfPage' = cur
           /\ idx' = idx + 1
           /\ IF idx < Len(issuePages)
              THEN /\ elementPageStarts' = Append(elementPageStarts, cur)
                   /\ layoutHeight' \in LayoutHeights(issuePages[idx + 1])
                   /\ container' = <<stylePage(cloneNode(issuePages[idx + 1]))>>
                   /\ pc' = "paint"
                   /\ UNCHANGED <<issueIdToPage, annotations, surface, saved>>
              ELSE LET idToPage == BuildIssueIdToPage(issuePages, elementPageStarts)
                   IN  /\ issueIdToPage' = idToPage
                       /\ annotations' =
                            IF Len(tocLinks) > 0 /\ used > 0
                            THEN addTocLinkAnnotations(tocStartPage, used, tocLinks,
                                                       idToPage, 1)
                            ELSE <<>>
                       /\ saved' = TRUE
                       /\ surface' = cleanup(surface)
                       /\ pc' = "done"
                       /\ UNCHANGED <<elementPageStarts, layoutHeight, container>>
    /\ UNCHANGED <<issuePages, tocStartPage, tocLinks>>
    /\ UNCHANGED <<appVars, fileVars, listVars, exportVars>>

NextPdf == GeneratePdfStart \/ Painted \/ Settled \/ Rasterized

SpecPdf == InitPdf /\ [][NextPdf]_vars

-----------------------------------------------------------------------------
(* The grouping engine applied to an issue list: the App renders the preview, *)
(* buildDocument builds the DOCX, generatePdf queries the preview's pages.   *)

Categories == {"", "Uncategorized", "api", "Web"}
Risks == {"Critical", "HIGH", "Medium", "low", "Informational", "", "Constructor"}

(* issues are appended as they are created, so _id grows along the list *)
IssueLists ==
    UNION { { [k \in 1..n |-> [_id |-> k, category |-> cs[k], overallRisk |-> rs[k]]] :
                cs \in [1..n -> Categories], rs \in [1..n -> Risks] } :
            n \in 0..MaxList }

(* {issues.length > 0 && <section className="preview-section">...} *)
RenderPreview(g) ==
    IF g = <<>> THEN <<>> ELSE PreviewPages(IdsOf(GroupIssues(g)))

InitGroup ==
    /\ issues \in IssueLists
    /\ sortEngine \in SortEngines
    /\ grouped = <<>>
    /\ preview = <<>>
    /\ docx = NoDocx
    /\ NoFile
    /\ pc = "idle"
    /\ issuePages = <<>>
    /\ idx = 0
    /\ layoutHeight = 0
    /\ currentPdfPage = 0
    /\ elementPageStarts = <<>>
    /\ tocStartPage = 0
    /\ tocPagesUsed = 0
    /\ tocLinks = <<>>
    /\ canvases = <<>>
    /\ pdf = <<>>
    /\ issueIdToPage = <<>>
    /\ annotations = <<>>
    /\ surface = "none"
    /\ saved = FALSE
    /\ container = <<>>
    /\ NoExport
    /\ NoList

pdfRest == <<pc, idx, layoutHeight, currentPdfPage, elementPageStarts, tocStartPage,
             tocPagesUsed, tocLinks, canvases, pdf, issueIdToPage, annotations,
             surface, saved, container>>

(* the App renders: the memo is recomputed and the preview follows it *)
RenderApp ==
    /\ issues # <<>>
    /\ preview = <<>>
    /\ grouped' = GroupedMemo(issues)
    /\ preview' = RenderPreview(grouped')
    /\ UNCHANGED <<issues, sortEngine, docx, issuePages, pdfRest, fileVars, listVars, exportVars>>

(* generateDocx: const doc = buildDocument(issues) *)
BuildDocument ==
    /\ issues # <<>>
    /\ docx = NoDocx
    /\ docx' = buildDocument(issues)
    /\ UNCHANGED <<issues, sortEngine, grouped, preview, issuePages, pdfRest, fileVars, listVars, exportVars>>

(* generatePdf: previewElement.querySelectorAll(".issue-page") *)
QueryIssuePages ==
    /\ preview # <<>>
    /\ issuePages = <<>>
    /\ issuePages' = preview
    /\ UNCHANGED <<issues, sortEngine, grouped, preview, docx, pdfRest, fileVars, listVars, exportVars>>

NextGroup == RenderApp \/ BuildDocument \/ QueryIssuePages

SpecGroup == InitGroup /\ [][NextGroup]_vars

-----------------------------------------------------------------------------
(* Properties of the grouping engine *)

PositionIn(list, id) == CHOOSE k \in 1..Len(list) : list[k]._id = id

(* the severity rank the specification gives: anything else ranks 5 *)
ClaimedRank(risk) ==
    LET s == ToLowerCase(risk)
    IN  CASE s = "critical" -> 0
          [] s = "high" -> 1
          [] s = "medium" -> 2
          [] s = "low" -> 3
          [] s \in {"info", "informational"} -> 4
          [] OTHER -> 5

(* C4: the categories come in ascending order of their name and, inside a   *)
(* category, the issues in non-decreasing severity rank, issues of equal    *)
(* rank in their input order.                                               *)
C4_CanonicalOrder ==
    grouped # <<>> =>
        /\ \A k \in 1..(Len(grouped) - 1) :
               LocaleCompare(grouped[k].category, grouped[k + 1].category) < 0
        /\ \A g \in 1..Len(grouped) :
               \A a, b \in 1..Len(grouped[g].issues) :
                   a < b =>
                       LET x == grouped[g].issues[a]
                           y == grouped[g].issues[b]
                       IN  /\ ClaimedRank(x.overallRisk) <= ClaimedRank(y.overallRisk)
                           /\ ClaimedRank(x.overallRisk) = ClaimedRank(y.overallRisk)
                                  => PositionIn(issues, x._id) < PositionIn(issues, y._id)

DocxTocIds ==
    LET links == SelectSeq(docx.toc, LAMBDA e : e.kind = "link")
    IN  [k \in 1..Len(links) |-> links[k].anchor[2]]

DocxSectionIds == [k \in 1..Len(docx.sections) |-> docx.sections[k].bookmark[2]]

PreviewTocIds == preview[1].tocItems

PdfTocIds == issuePages[1].tocItems

PdfUnitIds == [k \in 1..(Len(issuePages) - 1) |-> issuePages[k + 1].issueId]

CanonicalIds == IdsOf(GroupIssues(groupByCategory(issues)))

(* C5: once the DOCX is built and the PDF renderer has taken the preview's  *)
(* pages, the issue identifiers come in the same order in the DOCX table of *)
(* contents, the DOCX sections, the table of contents of the preview and of *)
(* the PDF, and the PDF issue units: the order groupByCategory returns.     *)
C5_SameOrderEverywhere ==
    (docx # NoDocx /\ issuePages # <<>>) =>
        /\ DocxTocIds = CanonicalIds
        /\ DocxSectionIds = CanonicalIds
        /\ PreviewTocIds = CanonicalIds
        /\ PdfTocIds = CanonicalIds
        /\ PdfUnitIds = CanonicalIds

(* both exports ran on a list whose canonical order is not its input order *)
C5_Witness ==
    /\ docx # NoDocx
    /\ issuePages # <<>>
    /\ Len(issues) = 2
    /\ PdfUnitIds = <<2, 1>>
    /\ DocxSectionIds = <<2, 1>>

(* the stored fields of a grouped record: the record without its page number *)
StoredFields(r) == [f \in DOMAIN r \ {"_pageNumber"} |-> r[f]]

UncategorizedHolds(issue) ==
    \E g \in 1..Len(grouped) :
        /\ grouped[g].category = "Uncategorized"
        /\ \E k \in 1..Len(grouped[g].issues) :
               StoredFields(grouped[g].issues[k]) = issue

(* C6: every issue whose category is empty is in the group "Uncategorized", *)
(* with its stored fields as they were (the category still empty), and the  *)
(* input list is never changed by the grouping.                             *)
C6_UncategorizedNotStored ==
    /\ [](grouped # <<>> =>
            \A k \in 1..Len(issues) :
                issues[k].category = "" => UncategorizedHolds(issues[k]))
    /\ [][issues' = issues]_vars

(* an issue without category is grouped with one whose category is the word *)
C6_Witness ==
    /\ Len(grouped) = 1
    /\ Len(issues) = 2
    /\ issues[1].category = ""
    /\ issues[2].category = "Uncategorized"
    /\ grouped[1].category = "Uncategorized"
    /\ Len(grouped[1].issues) = 2

-----------------------------------------------------------------------------
(* Properties of the raster pagination renderer *)

RECURSIVE Flatten(_)
Flatten(pages) ==
    IF pages = <<>> THEN <<>> ELSE Head(pages) \o Flatten(Tail(pages))

(* the images of one unit, in page order *)
UnitStrips(unit) == SelectSeq(Flatten(pdf), LAMBDA img : img.unit = unit)

(* the physical pages that hold an image of the unit covering canvas row `row` *)
PagesOfRow(unit, row) ==
    { p \in 1..Len(pdf) :
        \E k \in 1..Len(pdf[p]) :
            /\ pdf[p][k].unit = unit
            /\ pdf[p][k].srcY <= row
            /\ row < pdf[p][k].srcY + pdf[p][k].heightPx }

Sliced(unit) == unit \in 1..Len(canvases) /\ ~FitsOnePage(canvases[unit])

(* C1: every canvas higher than the usable page height is cut into strips   *)
(* that start at row 0, each start where the previous one ended, are not    *)
(* empty and end at the canvas height: no pixel row is omitted or repeated. *)
C1_StripsCoverCanvas ==
    \A unit \in 1..Len(canvases) :
        Sliced(unit) =>
            LET strips == UnitStrips(unit)
            IN  /\ Len(strips) >= 1
                /\ strips[1].srcY = 0
                /\ \A j \in 1..Len(strips) : strips[j].heightPx >= 1
                /\ \A j \in 1..(Len(strips) - 1) :
                       strips[j + 1].srcY = strips[j].srcY + strips[j].heightPx
                /\ strips[Len(strips)].srcY + strips[Len(strips)].heightPx
                       = canvases[unit].height

(* a canvas was cut into three strips, the last one shorter than a page *)
C1_Witness ==
    \E unit \in 1..Len(canvases) :
        /\ Sliced(unit)
        /\ Len(UnitStrips(unit)) = 3
        /\ UnitStrips(unit)[3].heightPx < StripHeightPx(canvases[unit].width)

(* C2: when generatePdf has processed all units, the page recorded for each *)
(* issue is the physical page that holds the first strip of that issue.     *)
C2_PageMapIsFirstStripPage ==
    pc = "done" =>
        \A k \in 2..Len(issuePages) :
            /\ issuePages[k].issueId \in DOMAIN issueIdToPage
            /\ PagesOfRow(k, 0) = { issueIdToPage[issuePages[k].issueId] }

(* a two-page TOC, then a two-page issue on page 3 and a next issue on page 5 *)
C2_Witness ==
    /\ pc = "done"
    /\ Len(issuePages) = 3
    /\ tocPagesUsed = 2
    /\ Len(UnitStrips(2)) = 2
    /\ issueIdToPage[issuePages[2].issueId] = 3
    /\ issueIdToPage[issuePages[3].issueId] = 5

(* C3: every measured TOC entry whose target issue has a page gets its link *)
(* on the physical TOC page whose image strip contains the top edge of the  *)
(* entry (canvas row SCALE * y). The claim also fixes the vertical position *)
(* on that page; the page alone is stated here.                             *)
C3_LinkOnStripPage ==
    pc = "done" =>
        \A k \in 1..Len(tocLinks) :
            tocLinks[k].issueId \in DOMAIN issueIdToPage =>
                \E a \in 1..Len(annotations) :
                    /\ annotations[a].issueId = tocLinks[k].issueId
                    /\ annotations[a].page \in PagesOfRow(1, SCALE * tocLinks[k].y)

-----------------------------------------------------------------------------
(* Markdown files: downloadIssueMd writes an issue out with issueToMarkdown, *)
(* processFiles reads a file in with parseIssue.                             *)

MaxTextLen == 4

(* the characters of an uploaded file *)
FileTokens ==
    {"#", "Issue title:", "Overall Risk:", "Impact:", "Exploitability:",
     "Finding ID:", "Component:", "Category:", "Status:", "Additional Issue:",
     " ", "\n", "|", "a"}

UploadedFiles == UNION { [1..n -> FileTokens] : n \in 0..MaxTextLen }

(* the issues of the editor *)
EditedRows ==
    { <<>>,
      <<[title |-> <<"a">>, severity |-> <<"High">>]>>,
      <<[title |-> <<"b">>, severity |-> <<>>]>> }

EditedIssues ==
    { [EmptyIssue EXCEPT
          !.title = t, !.overallRisk = r, !.impact = <<"High">>,
          !.exploitability = <<"Medium">>, !.findingId = <<"a">>,
          !.component = c, !.category = <<"a">>, !.status = <<"New">>,
          !.impactDetails = <<"a">>, !.description = d, !.evidence = e,
          !.codeExample = x, !.codeLanguage = l, !.exampleScenario = <<"a">>,
          !.recommendation = <<"b">>, !.extraRows = rows] :
        t \in {<<"a">>, <<"a", " ", "b">>},
        r \in {<<>>, <<"High">>},
        c \in {<<>>, <<"b">>},
        d \in {<<"a">>, <<"a", "\n", "b">>},
        e \in {<<>>, <<"b">>},
        x \in {<<>>, <<"a">>},
        l \in {<<>>, <<"js">>},
        rows \in EditedRows }

InitFile ==
    /\ \/ /\ filePc = "editing"
          /\ edited \in EditedIssues
          /\ fileContent = <<>>
       \/ /\ filePc = "file"
          /\ edited = EmptyIssue
          /\ fileContent \in UploadedFiles
    /\ parsed = EmptyIssue
    /\ inlineText = <<>>
    /\ html = [done |-> FALSE, out |-> <<>>]
    /\ runs = [done |-> FALSE, out |-> <<>>]
    /\ badges = NoBadges
    /\ call = NoCall
    /\ slicing = NoSlicing
    /\ issues = <<>>
    /\ sortEngine = "linear"
    /\ grouped = <<>>
    /\ preview = <<>>
    /\ docx = NoDocx
    /\ pc = "idle"
    /\ issuePages = <<>>
    /\ idx = 0
    /\ layoutHeight = 0
    /\ currentPdfPage = 0
    /\ elementPageStarts = <<>>
    /\ tocStartPage = 0
    /\ tocPagesUsed = 0
    /\ tocLinks = <<>>
    /\ canvases = <<>>
    /\ pdf = <<>>
    /\ issueIdToPage = <<>>
    /\ annotations = <<>>
    /\ surface = "none"
    /\ saved = FALSE
    /\ container = <<>>
    /\ NoExport
    /\ NoList

(* downloadIssueMd: the file holds issueToMarkdown(issue) *)
DownloadIssueMd ==
    /\ filePc = "editing"
    /\ fileContent' = issueToMarkdown(edited)
    /\ filePc' = "file"
    /\ UNCHANGED <<edited, parsed, inlineText, html, runs, badges, call, slicing, pdfVars, appVars, exportVars, listVars>>

(* processFiles: const parsed = parseIssue(content) *)
ProcessFiles ==
    /\ filePc = "file"
    /\ parsed' = parseIssue(fileContent)
    /\ filePc' = "parsed"
    /\ UNCHANGED <<edited, fileContent, inlineText, html, runs, badges, call, slicing, pdfVars, appVars, exportVars, listVars>>

NextFile == DownloadIssueMd \/ ProcessFiles

SpecFile == InitFile /\ [][NextFile]_vars

-----------------------------------------------------------------------------
(* Properties of parseIssue and issueToMarkdown *)

IssueFields == DOMAIN EmptyIssue

AllNonEmpty(issue) ==
    /\ \A f \in IssueFields : issue[f] # <<>>
    /\ \A k \in 1..Len(issue.extraRows) :
          issue.extraRows[k].title # <<>> /\ issue.extraRows[k].severity # <<>>

(* C7: for an issue whose fields are all non-empty, parsing the markdown     *)
(* that issueToMarkdown wrote gives the issue back, equal in every field.    *)
C7_RoundTrip ==
    (filePc = "parsed" /\ AllNonEmpty(edited)) => parsed = edited

MetaKeys ==
    [overallRisk |-> "Overall Risk:", impact |-> "Impact:",
     exploitability |-> "Exploitability:", findingId |-> "Finding ID:",
     component |-> "Component:", category |-> "Category:", status |-> "Status:"]

LinesOf(text) == SplitOn(text, "\n")

(* the line starts with the key *)
IsKeyLine(line, key) == line # <<>> /\ line[1] = key

(* what the line has after its key, trimmed *)
LineValue(line) == Trim(Tail(line))

(* the line carries "Issue title:" with a non-blank value after it *)
IsTitledLine(line) ==
    \E k \in 1..Len(line) :
        line[k] = "Issue title:" /\ Trim(SubSeq(line, k + 1, Len(line))) # <<>>

(* C8: the title and each of the seven metadata fields is non-empty only if  *)
(* a line of the text has the field's key with a non-blank value after it on *)
(* that same line; a value is never taken from another line.                 *)
C8_ValueFromKeyLine ==
    filePc = "parsed" =>
        /\ parsed.title # <<>> =>
              \E i \in 1..Len(LinesOf(fileContent)) : IsTitledLine(LinesOf(fileContent)[i])
        /\ \A f \in DOMAIN MetaKeys :
              parsed[f] # <<>> =>
                  \E i \in 1..Len(LinesOf(fileContent)) :
                      /\ IsKeyLine(LinesOf(fileContent)[i], MetaKeys[f])
                      /\ LineValue(LinesOf(fileContent)[i]) # <<>>

KeyLines(text, key) ==
    { i \in 1..Len(LinesOf(text)) : IsKeyLine(LinesOf(text)[i], key) }

ValuedKeyLines(text, key) ==
    { i \in KeyLines(text, key) : LineValue(LinesOf(text)[i]) # <<>> }

(* C9: when the text has more than one line for a metadata key, the field    *)
(* holds the value of the first of these lines that has one, for each of the *)
(* seven fields.                                                             *)
C9_FirstLineWins ==
    filePc = "parsed" =>
        \A f \in DOMAIN MetaKeys :
            Cardinality(KeyLines(fileContent, MetaKeys[f])) > 1 =>
                parsed[f] =
                    IF ValuedKeyLines(fileContent, MetaKeys[f]) = {} THEN <<>>
                    ELSE LineValue(LinesOf(fileContent)[
                             MinOf(ValuedKeyLines(fileContent, MetaKeys[f]))])

(* the "Additional Issue:" lines of the text, in order *)
RECURSIVE AdditionalIssueLines(_)
AdditionalIssueLines(lines) ==
    IF lines = <<>> THEN <<>>
    ELSE (IF IsKeyLine(Head(lines), "Additional Issue:") THEN <<Head(lines)>> ELSE <<>>)
         \o AdditionalIssueLines(Tail(lines))

(* the entry the line stands for: the trimmed text before the first pipe,    *)
(* the trimmed text between the first and the second pipe, "Medium" when no  *)
(* severity is there                                                         *)
StatedRow(line) ==
    LET parts == SplitOn(Tail(line), "|")
    IN  [title |-> Trim(parts[1]),
         severity |-> IF Len(parts) >= 2 /\ Trim(parts[2]) # <<>>
                      THEN Trim(parts[2]) ELSE <<"Medium">>]

(* C10: extraRows has one entry per "Additional Issue:" line, in the order   *)
(* of the lines, with the line's title and severity, and "Medium" for a line *)
(* with no severity, so that no entry has an empty severity. Stated for the  *)
(* texts whose "Additional Issue:" lines all carry a title.                  *)
C10_OneRowPerLine ==
    LET rows == AdditionalIssueLines(LinesOf(fileContent))
    IN  (/\ filePc = "parsed"
         /\ \A k \in 1..Len(rows) : StatedRow(rows[k]).title # <<>>)
        => /\ parsed.extraRows = [k \in 1..Len(rows) |-> StatedRow(rows[k])]
           /\ \A k \in 1..Len(parsed.extraRows) : parsed.extraRows[k].severity # <<>>

-----------------------------------------------------------------------------
(* Export: the two export buttons, handleExportPdf and handleExportDocx,     *)
(* with generatePdf and generateDocx running to their end or failing.        *)

ExportIssueLists ==
    { [k \in 1..Len(ids) |-> [_id |-> ids[k], category |-> "Web", overallRisk |-> "HIGH"]] :
        ids \in PreviewIdLists }

InitExport ==
    /\ issues \in ExportIssueLists
    /\ sortEngine = "linear"
    /\ grouped = GroupedMemo(issues)
    /\ preview = RenderPreview(grouped)
    /\ issuePages = preview
    /\ docx = NoDocx
    /\ NoFile
    /\ pc = "idle"
    /\ idx = 0
    /\ layoutHeight = 0
    /\ currentPdfPage = 0
    /\ elementPageStarts = <<>>
    /\ tocStartPage = 0
    /\ tocPagesUsed = 0
    /\ tocLinks = <<>>
    /\ canvases = <<>>
    /\ pdf = <<>>
    /\ issueIdToPage = <<>>
    /\ annotations = <<>>
    /\ surface = "none"
    /\ saved = FALSE
    /\ container = <<>>
    /\ NoExport
    /\ NoList

DisabledAfterClickStale(d) == d

(* the buttons' disabled attribute when a click handler that called          *)
(* setGenerating(true) has returned: React 18 renders the updates of a click *)
(* before the browser dispatches the next event                              *)
DisabledAfterClick(d) == TRUE

CaughtErrorSwallowed(p) == FALSE

(* catch (err) { console.error(...); alert(...) } *)
CaughtError(p) == p = "failed"

(* setGenerating(true) at the start of a handler *)
ExportBegins ==
    /\ ~buttonsDisabled
    /\ issues # <<>>
    /\ generating' = TRUE
    /\ buttonsDisabled' = DisabledAfterClick(buttonsDisabled)
    /\ exporting' = exporting + 1
    /\ reported' = FALSE

(* setGenerating(false) as the last statement of the try block: it is       *)
(* passed over when the promise was rejected                                 *)
ExportEndsInTry(p) ==
    /\ reported' = CaughtError(p)
    /\ generating' = (p = "failed")
    /\ exporting' = exporting - 1
    /\ UNCHANGED buttonsDisabled

(* setGenerating(false) at the end of a handler; the buttons follow at the   *)
(* next render                                                               *)
ExportEnds(p) ==
    /\ reported' = CaughtError(p)
    /\ generating' = FALSE
    /\ exporting' = exporting - 1
    /\ UNCHANGED buttonsDisabled

(* click on "Export as PDF": handleExportPdf as far as generatePdf's first await *)
ClickExportPdf ==
    /\ ExportBegins
    /\ GeneratePdfBegin
    /\ UNCHANGED <<appVars, fileVars, listVars, docxPc, docxSaved>>

(* the same click, with cloneNode or stylePage throwing in the first iteration *)
ClickExportPdfCloneFails ==
    /\ ExportBegins
    /\ pdf' = NewPdf
    /\ surface' = cleanup("attached")
    /\ idx' = 1
    /\ canvases' = <<>>
    /\ issueIdToPage' = <<>>
    /\ annotations' = <<>>
    /\ saved' = FALSE
    /\ container' = <<>>
    /\ pc' = "failed"
    /\ UNCHANGED <<issuePages, layoutHeight, currentPdfPage, elementPageStarts,
                   tocStartPage, tocPagesUsed, tocLinks>>
    /\ UNCHANGED <<appVars, fileVars, listVars, docxPc, docxSaved>>

(* html2canvas rejects *)
RasterizeFails ==
    /\ pc = "raster"
    /\ surface' = cleanup(surface)
    /\ pc' = "failed"
    /\ UNCHANGED <<issuePages, idx, layoutHeight, currentPdfPage, elementPageStarts,
                   tocStartPage, tocPagesUsed, tocLinks, canvases, pdf, issueIdToPage,
                   annotations, saved, container>>
    /\ UNCHANGED <<appVars, fileVars, listVars, exportVars>>

(* html2canvas resolves and a later statement throws: addCanvasToPdf, the    *)
(* cloning of the next unit, addTocLinkAnnotations or pdf.save               *)
AssemblyFails ==
    /\ pc = "raster"
    /\ canvases' = Append(canvases, renderToCanvas(layoutHeight))
    /\ surface' = cleanup(surface)
    /\ pc' = "failed"
    /\ UNCHANGED <<issuePages, idx, layoutHeight, currentPdfPage, elementPageStarts,
                   tocStartPage, tocPagesUsed, tocLinks, pdf, issueIdToPage,
                   annotations, saved, container>>
    /\ UNCHANGED <<appVars, fileVars, listVars, exportVars>>

(* the promise of generatePdf settles and handleExportPdf runs to its end *)
ExportPdfSettled ==
    /\ pc \in {"done", "failed"}
    /\ exporting > 0
    /\ ExportEnds(pc)
    /\ pc' = "idle"
    /\ UNCHANGED <<issuePages, idx, layoutHeight, currentPdfPage, elementPageStarts,
                   tocStartPage, tocPagesUsed, tocLinks, canvases, pdf, issueIdToPage,
                   annotations, surface, saved, container>>
    /\ UNCHANGED <<appVars, fileVars, listVars, docxPc, docxSaved>>

(* click on "Export as DOCX": handleExportDocx, generateDocx as far as       *)
(* await Packer.toBlob(doc)                                                  *)
ClickExportDocx ==
    /\ ExportBegins
    /\ docx' = buildDocument(issues)
    /\ docxSaved' = FALSE
    /\ docxPc' = "packing"
    /\ UNCHANGED <<issues, sortEngine, grouped, preview, pdfVars, fileVars, listVars>>

(* Packer.toBlob resolves: saveAs(blob, "audit-report.docx") *)
DocxPacked ==
    /\ docxPc = "packing"
    /\ docxSaved' = TRUE
    /\ docxPc' = "done"
    /\ UNCHANGED <<pdfVars, appVars, fileVars, listVars, generating, buttonsDisabled, exporting,
                   reported>>

(* Packer.toBlob rejects *)
DocxPackFails ==
    /\ docxPc = "packing"
    /\ docxPc' = "failed"
    /\ UNCHANGED <<pdfVars, appVars, fileVars, listVars, generating, buttonsDisabled, exporting,
                   reported, docxSaved>>

(* the promise of generateDocx settles and handleExportDocx runs to its end *)
ExportDocxSettled ==
    /\ docxPc \in {"done", "failed"}
    /\ exporting > 0
    /\ ExportEnds(docxPc)
    /\ docxPc' = "idle"
    /\ UNCHANGED <<pdfVars, appVars, fileVars, listVars, docxSaved>>

(* React renders the App: disabled={generating} *)
RenderButtons ==
    /\ buttonsDisabled # generating
    /\ buttonsDisabled' = generating
    /\ UNCHANGED <<pdfVars, appVars, fileVars, listVars, generating, exporting, reported, docxPc,
                   docxSaved>>

NextExport ==
    \/ ClickExportPdf \/ ClickExportPdfCloneFails
    \/ Painted \/ Settled \/ Rasterized \/ RasterizeFails \/ AssemblyFails
    \/ ExportPdfSettled
    \/ ClickExportDocx \/ DocxPacked \/ DocxPackFails \/ ExportDocxSettled
    \/ RenderButtons

SpecExport == InitExport /\ [][NextExport]_vars

-----------------------------------------------------------------------------
(* Properties of the export *)

(* C11: whenever a call of generatePdf has settled, with the document saved  *)
(* or with a step having failed, the render surface it created is no longer  *)
(* attached to the document.                                                 *)
C11_SurfaceReleased ==
    pc \in {"idle", "done", "failed"} => surface # "attached"

(* a call failed at a unit after the first and its surface is removed *)
C11_Witness == pc = "failed" /\ idx > 1 /\ surface = "removed"

(* C12: when generatePdf fails at unit k, no PDF is saved, nothing more is   *)
(* rendered (the only step that follows is the handler's, which reports the  *)
(* error), and the live preview is what it was before the export.            *)
C12_FailureAborts ==
    /\ [](pc = "failed" => ~saved /\ Len(canvases) <= idx)
    /\ [][pc = "failed" =>
            /\ pc' = "idle"
            /\ reported'
            /\ ~saved'
            /\ canvases' = canvases
            /\ container' = container]_vars
    /\ [][preview' = preview]_vars

(* unit 2 of 3 failed after unit 1 was rendered, and the error was reported *)
C12_Witness ==
    /\ pc = "idle"
    /\ reported
    /\ ~saved
    /\ idx = 2
    /\ Len(issuePages) = 3
    /\ Len(canvases) >= 1
    /\ preview = RenderPreview(GroupedMemo(issues))

(* C13: at most one export is in progress: between the start of an export    *)
(* and the clearing of its `generating` flag no other export starts.         *)
C13_OneExportAtATime ==
    /\ exporting <= 1
    /\ ~(pc # "idle" /\ docxPc # "idle")
    /\ (pc # "idle" \/ docxPc # "idle") => generating /\ buttonsDisabled

(* a DOCX export is in progress after a PDF export has completed *)
C13_Witness == exporting = 1 /\ docxPc = "packing" /\ saved /\ pc = "idle"

-----------------------------------------------------------------------------
(* The issue list: uploads (processFiles), addNewPage, removeFile, clearAll, *)
(* the debounced auto-save and the reload of the page from the saved state.  *)
(* An issue carries the fields the list operations and the editor work on;   *)
(* sharesRows tells that its extraRows is the very array its snapshot holds. *)

MaxIssueId == 3
MaxUploads == 2
(* how many files one drop or file selection holds *)
FileCounts == {1, 2}

IssueIdsOf(list) == { list[k]._id : k \in 1..Len(list) }

(* const { _id: _, ...rest } = issue; { ...rest } *)
SnapshotOf(issue) ==
    [title |-> issue.title, overallRisk |-> issue.overallRisk,
     findingId |-> issue.findingId, category |-> issue.category,
     extraRows |-> issue.extraRows]

(* { ...snapshot, _id: id }: the issue takes the snapshot's extraRows array *)
IssueOf(snapshot, id) ==
    [_id |-> id, title |-> snapshot.title, overallRisk |-> snapshot.overallRisk,
     findingId |-> snapshot.findingId, category |-> snapshot.category,
     extraRows |-> snapshot.extraRows, sharesRows |-> TRUE]

(* what parseIssue makes of the files that are uploaded *)
ParsedUploads ==
    { [title |-> "a", overallRisk |-> "HIGH", findingId |-> <<>>, category |-> "Web",
       extraRows |-> <<[title |-> "a", severity |-> "High"]>>] }

(* the record addNewPage builds for a category *)
BlankPage(cat) ==
    [title |-> "", overallRisk |-> "Medium", findingId |-> <<>>, category |-> cat,
     extraRows |-> <<>>]

(* the answers to window.prompt("Enter category for the new page:") *)
CategoryPrompts == {"", "api"}

FileEntryFor(id, manual) == [createdWith |-> id, isManual |-> manual]

(* prev + one key *)
WithOriginal(origs, id, snapshot) ==
    [k \in (DOMAIN origs) \cup {id} |-> IF k = id THEN snapshot ELSE origs[k]]

(* { ...prev, ...newOriginals } *)
MergeOriginals(origs, more) ==
    [k \in (DOMAIN origs) \cup (DOMAIN more) |-> IF k \in DOMAIN more THEN more[k] ELSE origs[k]]

(* the key is left in the map *)
OriginalKept(origs, id) == origs

(* delete next[id] *)
WithoutOriginal(origs, id) == [k \in (DOMAIN origs) \ {id} |-> origs[k]]

(* prev.filter((_, i) => i !== index), for a 1-based index *)
RemoveAt(list, index) ==
    [k \in 1..(Len(list) - (IF index \in 1..Len(list) THEN 1 ELSE 0)) |->
        IF k < index THEN list[k] ELSE list[k + 1]]

(* the auto-save effect: a render with new files, issues or originals clears *)
(* the pending timeout and sets one whose closure holds the new state        *)
ArmedTimer(f, i, o) == [armed |-> TRUE, files |-> f, issues |-> i, originals |-> o]

(* JSON.parse(JSON.stringify(issues)): every array is a new one *)
FromJson(list) == [k \in 1..Len(list) |-> [list[k] EXCEPT !.sharesRows = FALSE]]

RestoredNextIdOne(initialSaved) == 1

(* let nextIssueId = initialSaved?.nextIssueId || 1 *)
RestoredNextId(initialSaved) ==
    IF initialSaved.present /\ initialSaved.nextIssueId # 0
    THEN initialSaved.nextIssueId ELSE 1

(* no PDF was generated *)
NoPdf ==
    /\ pc = "idle"
    /\ issuePages = <<>>
    /\ idx = 0
    /\ layoutHeight = 0
    /\ currentPdfPage = 0
    /\ elementPageStarts = <<>>
    /\ tocStartPage = 0
    /\ tocPagesUsed = 0
    /\ tocLinks = <<>>
    /\ canvases = <<>>
    /\ pdf = <<>>
    /\ issueIdToPage = <<>>
    /\ annotations = <<>>
    /\ surface = "none"
    /\ saved = FALSE
    /\ container = <<>>

(* the page is opened with nothing in localStorage *)
InitList ==
    /\ issues = <<>>
    /\ files = <<>>
    /\ originals = <<>>
    /\ nextIssueId = 1
    /\ uploads = <<>>
    /\ storage = NoSaved
    /\ saveTimer = ArmedTimer(<<>>, <<>>, <<>>)
    /\ translating = <<>>
    /\ sortEngine = "linear"
    /\ grouped = <<>>
    /\ preview = <<>>
    /\ docx = NoDocx
    /\ NoFile
    /\ NoPdf
    /\ NoExport

listRest == <<translating, sortEngine, grouped, preview, docx, pdfVars, fileVars, exportVars>>

(* processFiles is called with n markdown files and awaits the first file.text() *)
ProcessFilesStart ==
    /\ Len(uploads) < MaxUploads
    /\ \E n \in FileCounts :
          uploads' = Append(uploads, [left |-> n, newFiles |-> <<>>, newIssues |-> <<>>])
    /\ UNCHANGED <<issues, files, originals, nextIssueId, storage, saveTimer, listRest>>

(* a file.text() of upload u resolves: the file is parsed and takes the next *)
(* id; after the last file the three lists are appended to the state         *)
FileRead ==
    \E u \in 1..Len(uploads), content \in ParsedUploads :
        LET issue == IssueOf(content, nextIssueId)
            up == [left |-> uploads[u].left - 1,
                   newFiles |-> Append(uploads[u].newFiles, FileEntryFor(nextIssueId, FALSE)),
                   newIssues |-> Append(uploads[u].newIssues, issue)]
            newOriginals == [id \in IssueIdsOf(up.newIssues) |->
                                SnapshotOf(CHOOSE i \in { up.newIssues[k] : k \in 1..Len(up.newIssues) } :
                                               i._id = id)]
        IN  /\ nextIssueId <= MaxIssueId
            /\ nextIssueId' = nextIssueId + 1
            /\ IF up.left = 0
               THEN /\ files' = files \o up.newFiles
                    /\ issues' = issues \o up.newIssues
                    /\ originals' = MergeOriginals(originals, newOriginals)
                    /\ uploads' = RemoveAt(uploads, u)
                    /\ saveTimer' = ArmedTimer(files', issues', originals')
               ELSE /\ uploads' = [uploads EXCEPT ![u] = up]
                    /\ UNCHANGED <<issues, files, originals, saveTimer>>
            /\ UNCHANGED <<storage, listRest>>

(* a file.text() of upload u rejects: processFiles ends without adding anything *)
FileReadFails ==
    /\ \E u \in 1..Len(uploads) : uploads' = RemoveAt(uploads, u)
    /\ UNCHANGED <<issues, files, originals, nextIssueId, storage, saveTimer, listRest>>

(* addNewPage, the prompt answered with a category *)
AddNewPage ==
    \E category \in CategoryPrompts :
        LET cat == IF category = "" THEN "Uncategorized" ELSE category
            newIssue == IssueOf(BlankPage(cat), nextIssueId)
        IN  /\ nextIssueId <= MaxIssueId
            /\ nextIssueId' = nextIssueId + 1
            /\ files' = Append(files, FileEntryFor(nextIssueId, TRUE))
            /\ issues' = Append(issues, newIssue)
            /\ originals' = WithOriginal(originals, nextIssueId, SnapshotOf(newIssue))
            /\ saveTimer' = ArmedTimer(files', issues', originals')
            /\ UNCHANGED <<uploads, storage, listRest>>

(* removeFile(index) *)
RemoveFile ==
    \E index \in 1..Len(files) :
        /\ files' = RemoveAt(files, index)
        /\ issues' = RemoveAt(issues, index)
        /\ originals' = IF index \in 1..Len(issues)
                        THEN WithoutOriginal(originals, issues[index]._id)
                        ELSE originals
        /\ saveTimer' = ArmedTimer(files', issues', originals')
        /\ UNCHANGED <<nextIssueId, uploads, storage, listRest>>

(* clearAll, confirmed *)
ClearAll ==
    /\ files' = <<>>
    /\ issues' = <<>>
    /\ originals' = <<>>
    /\ storage' = NoSaved
    /\ saveTimer' = ArmedTimer(files', issues', originals')
    /\ UNCHANGED <<nextIssueId, uploads, listRest>>

(* the auto-save timeout fires: the state of its closure and the counter as  *)
(* it is now go to localStorage                                              *)
AutoSaveFires ==
    /\ saveTimer.armed
    /\ storage' = [present |-> TRUE, files |-> saveTimer.files,
                   issues |-> saveTimer.issues, originals |-> saveTimer.originals,
                   nextIssueId |-> nextIssueId]
    /\ saveTimer' = NoTimer
    /\ UNCHANGED <<issues, files, originals, nextIssueId, uploads, listRest>>

(* the timeout fires and localStorage.setItem throws *)
AutoSaveFails ==
    /\ saveTimer.armed
    /\ saveTimer' = NoTimer
    /\ UNCHANGED <<issues, files, originals, nextIssueId, uploads, storage, listRest>>

(* the page is loaded again: loadSavedState and the initial state of the App *)
Reload ==
    /\ files' = storage.files
    /\ issues' = FromJson(storage.issues)
    /\ originals' = storage.originals
    /\ nextIssueId' = RestoredNextId(storage)
    /\ uploads' = <<>>
    /\ saveTimer' = ArmedTimer(files', issues', originals')
    /\ UNCHANGED <<storage, listRest>>

NextList ==
    \/ ProcessFilesStart \/ FileRead \/ FileReadFails
    \/ AddNewPage \/ RemoveFile \/ ClearAll
    \/ AutoSaveFires \/ AutoSaveFails \/ Reload

SpecList == InitList /\ [][NextList]_vars

(* C14: no two issues of the list have the same _id, and the _id that is     *)
(* assigned next is the _id of no issue of the list, whatever uploads, page  *)
(* additions, removals, Clear All and reloads came before.                   *)
C14_UniqueIds ==
    /\ \A a, b \in 1..Len(issues) : a # b => issues[a]._id # issues[b]._id
    /\ nextIssueId \notin IssueIdsOf(issues)
    /\ \A u \in 1..Len(uploads) :
          IssueIdsOf(uploads[u].newIssues) \cap IssueIdsOf(issues) = {}

(* two uploads overlap after a reload from the saved state, and the list     *)
(* holds an issue that was created before the reload                         *)
C14_Witness ==
    /\ Len(uploads) = 2
    /\ uploads[1].newIssues # <<>>
    /\ uploads[2].newIssues # <<>>
    /\ issues # <<>>
    /\ storage.present
    /\ \E k \in 1..Len(issues) : ~issues[k].sharesRows

-----------------------------------------------------------------------------
(* The editor: updateIssue, addExtraRow, removeExtraRow, updateExtraRow,     *)
(* translateIssuePage, reindexFindingIds, restoreField and restoreIssue.     *)
(* title, overallRisk and category are strings taken whole; a findingId is a *)
(* sequence of tokens: a run of letters, "-", and one token for each digit.  *)

MaxRows == 1            \* extra rows one issue is given
MaxTranslating == 1     \* translateIssuePage calls in progress at a time

(* prev.map((iss) => iss._id === issueId ? changed : iss), where `changed`  *)
(* is what the callback makes of the issue with that _id                     *)
WithIssue(list, issueId, changed) ==
    [k \in 1..Len(list) |-> IF list[k]._id = issueId THEN changed ELSE list[k]]

(* the issue of the list with that _id: the _ids of a list are distinct *)
IssueWithId(list, issueId) ==
    list[CHOOSE k \in 1..Len(list) : list[k]._id = issueId]

(* the fields the editor calls updateIssue for, and what is typed into them *)
EditedFields == {"title", "findingId"}

TypedValues(field) ==
    CASE field = "title" -> {"t"}
      [] field = "findingId" -> {<<"7">>}

(* updateExtraRow(id, ri, "title", v) and updateExtraRow(id, ri, "severity", v) *)
RowFields == {"title", "severity"}

TypedRowValues(field) ==
    CASE field = "title" -> {"t"}
      [] field = "severity" -> {"High"}

(* what translateText resolves to *)
Translations == {"T"}

(* the array is used as it is *)
RowsKept(shares) == shares

(* [...(iss.extraRows || [])]: a new array, never the one the snapshot holds *)
RowsSpread(shares) == FALSE

(* the issue is given the array `rows`; when that array is the one its       *)
(* snapshot holds, the snapshot shows the same rows                          *)
SetRows(issueId, rows, shared) ==
    /\ issues' = WithIssue(issues, issueId,
                            [IssueWithId(issues, issueId) EXCEPT
                                !.extraRows = rows, !.sharesRows = shared])
    /\ originals' = IF shared /\ issueId \in DOMAIN originals
                    THEN [originals EXCEPT ![issueId].extraRows = rows]
                    ELSE originals

editRest == <<files, nextIssueId, uploads, storage, sortEngine, grouped, preview, docx,
              pdfVars, fileVars, exportVars>>

(* the render after setIssues: the auto-save effect sets a new timeout *)
Edited ==
    /\ saveTimer' = ArmedTimer(files, issues', originals')
    /\ UNCHANGED editRest

UpdateIssue ==
    \E k \in 1..Len(issues), field \in EditedFields :
        \E value \in TypedValues(field) :
            /\ issues' = WithIssue(issues, issues[k]._id, [issues[k] EXCEPT ![field] = value])
            /\ UNCHANGED <<originals, translating>>
            /\ Edited

AddExtraRow ==
    \E k \in 1..Len(issues) :
        /\ Len(issues[k].extraRows) < MaxRows
        /\ SetRows(issues[k]._id,
                   Append(issues[k].extraRows, [title |-> "", severity |-> "Medium"]),
                   RowsSpread(issues[k].sharesRows))
        /\ UNCHANGED translating
        /\ Edited

RemoveExtraRow ==
    \E k \in 1..Len(issues) :
        \E rowIndex \in 1..Len(issues[k].extraRows) :
            /\ SetRows(issues[k]._id, RemoveAt(issues[k].extraRows, rowIndex),
                       RowsSpread(issues[k].sharesRows))
            /\ UNCHANGED translating
            /\ Edited

UpdateExtraRow ==
    \E k \in 1..Len(issues), field \in RowFields :
        \E rowIndex \in 1..Len(issues[k].extraRows), value \in TypedRowValues(field) :
            /\ SetRows(issues[k]._id,
                       [issues[k].extraRows EXCEPT ![rowIndex] = [@ EXCEPT ![field] = value]],
                       RowsSpread(issues[k].sharesRows))
            /\ UNCHANGED translating
            /\ Edited

(* translateIssuePage up to its first await: the issue of the closure is kept *)
TranslateStart ==
    \E k \in 1..Len(issues) :
        /\ Len(translating) < MaxTranslating
        /\ \A t \in 1..Len(translating) : translating[t].issueId # issues[k]._id
        /\ translating' = Append(translating,
                                 [issueId |-> issues[k]._id, title |-> issues[k].title,
                                  extraRows |-> issues[k].extraRows])
        /\ UNCHANGED <<issues, originals, saveTimer, editRest>>

(* what a rejected promise holds in place of a value *)
Rejected == "undefined"

(* Promise.allSettled over the fields: a string that is not empty is         *)
(* translated or its request is rejected; an empty one is fulfilled as it is *)
FieldOutcomes(val) ==
    IF val # ""
    THEN { [fulfilled |-> TRUE, translated |-> tr] : tr \in Translations }
         \cup { [fulfilled |-> FALSE, translated |-> Rejected] }
    ELSE { [fulfilled |-> TRUE, translated |-> val] }

(* Promise.allSettled over the rows: { ...row, title: translated }, the row  *)
(* itself when its title is empty, or a rejection                            *)
RowOutcome(row) ==
    IF row.title # ""
    THEN { [fulfilled |-> TRUE, translated |-> [row EXCEPT !.title = tr]] : tr \in Translations }
         \cup { [fulfilled |-> FALSE, translated |-> [title |-> Rejected, severity |-> Rejected]] }
    ELSE { [fulfilled |-> TRUE, translated |-> row] }

RowOutcomes(rows) ==
    { out \in [1..Len(rows) -> UNION { RowOutcome(rows[i]) : i \in 1..Len(rows) }] :
        \A i \in 1..Len(rows) : out[i] \in RowOutcome(rows[i]) }

(* the value of every result is taken *)
SettledAlways(result, kept) == result.translated

(* result.status === "fulfilled" ? the value : what was there *)
SettledValue(result, kept) == IF result.fulfilled THEN result.translated ELSE kept

(* prev.map(iss => iss._id === issueId ? { ...iss, ...updates } : iss), with *)
(* the updates made of the results `res` and `rows`                          *)
Translated(t, res, rows) ==
    LET job == translating[t]
    IN  IF job.issueId \in IssueIdsOf(issues)
        THEN WithIssue(issues, job.issueId,
                [IssueWithId(issues, job.issueId) EXCEPT
                   !.title = SettledValue(res, @),
                   !.extraRows = IF Len(job.extraRows) > 0
                                 THEN [i \in 1..Len(job.extraRows) |->
                                          SettledValue(rows[i], job.extraRows[i])]
                                 ELSE @,
                   !.sharesRows = IF Len(job.extraRows) > 0 THEN FALSE ELSE @])
        ELSE issues

(* the awaits of a translateIssuePage call are over with the results `res`   *)
(* and `rows`: setIssues, and the finally block                              *)
TranslateDoneWith(t, res, rows) ==
    /\ issues' = Translated(t, res, rows)
    /\ translating' = RemoveAt(translating, t)
    /\ UNCHANGED originals
    /\ Edited

TranslateDone ==
    \E t \in 1..Len(translating) :
        \E res \in FieldOutcomes(translating[t].title),
           rows \in RowOutcomes(translating[t].extraRows) :
            TranslateDoneWith(t, res, rows)

(* the fields restoreField is called for *)
RestoredFields == EditedFields \cup {"extraRows"}

RestoreField ==
    \E k \in 1..Len(issues), field \in RestoredFields :
        LET issueId == issues[k]._id
        IN  /\ issueId \in DOMAIN originals
            /\ issues' = WithIssue(issues, issueId,
                   [issues[k] EXCEPT ![field] = originals[issueId][field],
                                     !.sharesRows = IF field = "extraRows" THEN TRUE ELSE @])
            /\ UNCHANGED <<originals, translating>>
            /\ Edited

RestoreIssue ==
    \E k \in 1..Len(issues) :
        LET issueId == issues[k]._id
        IN  /\ issueId \in DOMAIN originals
            /\ issues' = WithIssue(issues, issueId, IssueOf(originals[issueId], issueId))
            /\ UNCHANGED <<originals, translating>>
            /\ Edited

(* reindexFindingIds *)

LetterTokens == {"ABC", "XY", "QA"}

Digit(n) ==
    CASE n = 0 -> "0" [] n = 1 -> "1" [] n = 2 -> "2" [] n = 3 -> "3" [] n = 4 -> "4"
      [] n = 5 -> "5" [] n = 6 -> "6" [] n = 7 -> "7" [] n = 8 -> "8" [] n = 9 -> "9"

(* String(num) *)
RECURSIVE DecimalString(_)
DecimalString(num) ==
    IF num < 10 THEN <<Digit(num)>>
    ELSE DecimalString(num \div 10) \o <<Digit(num % 10)>>

(* str.padStart(targetLength, fill) for a fill of one character *)
RECURSIVE PadStart(_, _, _)
PadStart(str, targetLength, fill) ==
    IF Len(str) >= targetLength THEN str
    ELSE PadStart(<<fill>> \o str, targetLength, fill)

(* iss.findingId.match of a run of letters followed by "-" at the start *)
PrefixMatch(findingId) ==
    IF Len(findingId) >= 2 /\ findingId[1] \in LetterTokens /\ findingId[2] = "-"
    THEN [ok |-> TRUE, value |-> <<findingId[1]>>, end |-> 2]
    ELSE NoMatch

(* the loop over issues that detects the default prefix *)
RECURSIVE DefaultPrefix(_)
DefaultPrefix(list) ==
    IF list = <<>> THEN <<"ABC">>
    ELSE IF Head(list).findingId # <<>> /\ PrefixMatch(Head(list).findingId).ok
         THEN PrefixMatch(Head(list).findingId).value
         ELSE DefaultPrefix(Tail(list))

(* the answers to window.prompt("Enter Finding ID prefix:", defaultPrefix):  *)
(* Cancel, the default left as it is, the field emptied, a prefix typed      *)
PrefixPrompts(defaultPrefix) ==
    { [cancelled |-> TRUE, text |-> <<>>],
      [cancelled |-> FALSE, text |-> defaultPrefix],
      [cancelled |-> FALSE, text |-> <<" ">>],
      [cancelled |-> FALSE, text |-> <<" ", "QA", " ">>] }

FindingNumberFlat(catIndex, issueIndex) == catIndex + issueIndex + 1

(* majorNum + minorNum, for the 0-based indices of forEach *)
FindingNumber(catIndex, issueIndex) == catIndex * 1000 + (issueIndex + 1)

(* idMap after the two forEach loops: the entry set last for an _id stays *)
IdMap(groups, prefix) ==
    LET entries == { <<c, k>> : c \in 1..Len(groups), k \in 1..MaxOf({Len(groups[g].issues) : g \in 1..Len(groups)} \cup {0}) }
        valid == { e \in entries : e[2] <= Len(groups[e[1]].issues) }
        ids == { groups[e[1]].issues[e[2]]._id : e \in valid }
        last(id) == CHOOSE e \in valid :
                        /\ groups[e[1]].issues[e[2]]._id = id
                        /\ \A f \in valid :
                              groups[f[1]].issues[f[2]]._id = id =>
                                  f[1] < e[1] \/ (f[1] = e[1] /\ f[2] <= e[2])
    IN  [id \in ids |->
            prefix \o <<"-">> \o
            PadStart(DecimalString(FindingNumber(last(id)[1] - 1, last(id)[2] - 1)), 4, "0")]

ReindexWith(input) ==
    IF input.cancelled
    THEN UNCHANGED vars
    ELSE \E prefix \in {OrElse(Trim(input.text), DefaultPrefix(issues))} :
         \E groups \in {groupByCategory(issues)} :
         \E idMap \in {IdMap(groups, prefix)} :
             /\ issues' = [k \in 1..Len(issues) |->
                              IF issues[k]._id \in DOMAIN idMap
                              THEN [issues[k] EXCEPT !.findingId = idMap[issues[k]._id]]
                              ELSE issues[k]]
             /\ UNCHANGED <<originals, translating>>
             /\ Edited

ReindexFindingIds == \E input \in PrefixPrompts(DefaultPrefix(issues)) : ReindexWith(input)

(* the lists the editor is opened with: an uploaded file, or an uploaded     *)
(* file and a page added by hand, as they were created or as a reload gives  *)
(* them back                                                                 *)
EditLists ==
    LET made == { <<IssueOf(u, 1)>> : u \in ParsedUploads }
                \cup { <<IssueOf(u, 1), IssueOf(BlankPage("api"), 2)>> : u \in ParsedUploads }
    IN  made \cup { FromJson(l) : l \in made }

InitEdit ==
    /\ issues \in EditLists
    /\ files = [k \in 1..Len(issues) |-> FileEntryFor(k, k = 2)]
    /\ originals = [id \in IssueIdsOf(issues) |-> SnapshotOf(issues[id])]
    /\ nextIssueId = Len(issues) + 1
    /\ uploads = <<>>
    /\ storage = NoSaved
    /\ saveTimer = ArmedTimer(files, issues, originals)
    /\ translating = <<>>
    /\ sortEngine = "linear"
    /\ grouped = <<>>
    /\ preview = <<>>
    /\ docx = NoDocx
    /\ NoFile
    /\ NoPdf
    /\ NoExport

NextEdit ==
    \/ UpdateIssue \/ AddExtraRow \/ RemoveExtraRow \/ UpdateExtraRow
    \/ TranslateStart \/ TranslateDone
    \/ ReindexFindingIds \/ RestoreField \/ RestoreIssue

SpecEdit == InitEdit /\ [][NextEdit]_vars

(* C15: in every step of the editor (a field edit, an extra row added,       *)
(* updated or removed, a page translation, a reindex, restoreField,          *)
(* restoreIssue) the snapshot of every issue of the list stays in originals  *)
(* with every field and every extraRows entry as it was.                     *)
C15_SnapshotImmutable ==
    [][\A id \in IssueIdsOf(issues) \cap IssueIdsOf(issues') :
          id \in DOMAIN originals =>
              id \in DOMAIN originals' /\ originals'[id] = originals[id]]_vars

(* an issue was edited, given other rows through a copy of its array,        *)
(* translated and reindexed, and the extraRows of another issue was restored *)
C15_Witness ==
    /\ Len(issues) = 2
    /\ issues[1].title = "t"
    /\ issues[1].findingId = <<"QA", "-", "1", "0", "0", "1">>
    /\ ~issues[1].sharesRows
    /\ Len(issues[1].extraRows) = 1
    /\ issues[1].extraRows[1] = [title |-> "t", severity |-> "High"]
    /\ originals[1].extraRows = <<[title |-> "a", severity |-> "High"]>>
    /\ issues[2].sharesRows
    /\ issues[2].findingId = <<"QA", "-", "0", "0", "0", "1">>
    /\ translating = <<>>

-----------------------------------------------------------------------------
(* reindexFindingIds over lists of several categories and severities *)

MaxReindexed == 3       \* issues in a list that is reindexed

ReindexCategories == {"api", "Web"}
ReindexRisks == {"Critical", "HIGH", "Constructor"}

(* the finding ids before the reindex: issue `first` is the first whose id   *)
(* starts with letters and "-"; the ids before it do not, the ids after it   *)
(* are empty; first = 0 when no id has a prefix                              *)
FindingIdBefore(k, first) ==
    IF k = first THEN <<"XY", "-", "7">>
    ELSE IF k < first THEN <<"7">> ELSE <<>>

ReindexLists ==
    UNION { { [k \in 1..n |->
                 [_id |-> k, title |-> "a", overallRisk |-> rs[k],
                  findingId |-> FindingIdBefore(k, first),
                  category |-> cs[k], extraRows |-> <<>>, sharesRows |-> TRUE]] :
                cs \in [1..n -> ReindexCategories], rs \in [1..n -> ReindexRisks],
                first \in 0..n } :
            n \in 0..MaxReindexed }

InitReindex ==
    /\ issues \in ReindexLists
    /\ files = [k \in 1..Len(issues) |-> FileEntryFor(k, FALSE)]
    /\ originals = [id \in IssueIdsOf(issues) |-> SnapshotOf(issues[id])]
    /\ nextIssueId = Len(issues) + 1
    /\ uploads = <<>>
    /\ storage = NoSaved
    /\ saveTimer = ArmedTimer(files, issues, originals)
    /\ translating = <<>>
    /\ sortEngine \in SortEngines
    /\ grouped = <<>>
    /\ preview = <<>>
    /\ docx = NoDocx
    /\ NoFile
    /\ NoPdf
    /\ NoExport

NextReindex == ReindexFindingIds

SpecReindex == InitReindex /\ [][NextReindex]_vars

(* the number n < 10000 written with four digits *)
FourDigits(n) ==
    <<Digit(n \div 1000), Digit((n \div 100) % 10), Digit((n \div 10) % 10), Digit(n % 10)>>

(* the prefix a reindex works with: the answer without the white space       *)
(* around it, or the detected default when nothing is left                   *)
PrefixOf(input) ==
    IF Trim(input.text) = <<>> THEN DefaultPrefix(issues) ELSE Trim(input.text)

(* C20: a reindex with prefix P gives the k-th issue (k from 1) of the c-th  *)
(* category (c from 0) of groupByCategory(issues) the finding id P, "-" and  *)
(* c*1000+k written with four digits, and leaves every other field of every  *)
(* issue, and the order of the list, as they were.                           *)
C20_ReindexNumbers ==
    [][\A input \in PrefixPrompts(DefaultPrefix(issues)) :
          ~input.cancelled /\ ReindexWith(input) =>
              \A groups \in {groupByCategory(issues)} :
                  /\ Len(issues') = Len(issues)
                  /\ \A i \in 1..Len(issues) :
                        issues'[i] = [issues[i] EXCEPT !.findingId = issues'[i].findingId]
                  /\ \A c \in 1..Len(groups) : \A k \in 1..Len(groups[c].issues) :
                        \A i \in 1..Len(issues) :
                            issues[i]._id = groups[c].issues[k]._id =>
                                issues'[i].findingId =
                                    PrefixOf(input) \o <<"-">> \o FourDigits((c - 1) * 1000 + k)]_vars

(* three issues of two categories, reindexed with the prefix QA: the list    *)
(* order is Web, api HIGH, api Critical, the canonical order the reverse     *)
C20_Witness ==
    /\ Len(issues) = 3
    /\ issues[1].category = "Web"
    /\ issues[2].category = "api" /\ issues[2].overallRisk = "HIGH"
    /\ issues[3].category = "api" /\ issues[3].overallRisk = "Critical"
    /\ issues[1].findingId = <<"QA", "-", "1", "0", "0", "1">>
    /\ issues[2].findingId = <<"QA", "-", "0", "0", "0", "2">>
    /\ issues[3].findingId = <<"QA", "-", "0", "0", "0", "1">>

-----------------------------------------------------------------------------
(* Properties of the document assembler *)

(* the InternalHyperlink entries of the table of contents *)
TocLinkEntries == { t \in 1..Len(docx.toc) : docx.toc[t].kind = "link" }

SectionsWithBookmark(b) == { k \in 1..Len(docx.sections) : docx.sections[k].bookmark = b }

TocLinksTo(b) == { t \in TocLinkEntries : docx.toc[t].anchor = b }

(* C19: in the document built from the issue list every hyperlink of the     *)
(* table of contents has the anchor "issue_" + _id of an issue of the list   *)
(* and exactly one section carries a bookmark of that id; every issue has    *)
(* exactly one bookmark and exactly one entry, and there are no others.      *)
C19_AnchorsResolve ==
    docx # NoDocx =>
        /\ \A t \in TocLinkEntries :
              /\ Cardinality(SectionsWithBookmark(docx.toc[t].anchor)) = 1
              /\ \E k \in 1..Len(issues) : docx.toc[t].anchor = <<"issue_", issues[k]._id>>
        /\ \A k \in 1..Len(issues) :
              /\ Cardinality(SectionsWithBookmark(<<"issue_", issues[k]._id>>)) = 1
              /\ Cardinality(TocLinksTo(<<"issue_", issues[k]._id>>)) = 1
        /\ Len(docx.sections) = Len(issues)
        /\ Cardinality(TocLinkEntries) = Len(issues)

(* a document of two issues of two categories, in an order that is not the   *)
(* order of the list                                                         *)
C19_Witness ==
    /\ Len(issues) = 2
    /\ Len(docx.sections) = 2
    /\ Len(docx.toc) = 4
    /\ docx.sections[1].bookmark = <<"issue_", 2>>
    /\ docx.toc[2].anchor = <<"issue_", 2>>
    /\ docx.toc[4].anchor = <<"issue_", 1>>

-----------------------------------------------------------------------------
(* Inline markdown: inlineMarkdownToHtml (parseIssue.ts) and                 *)
(* parseInlineMarkdown (generateDocx). A text is a sequence of characters;   *)
(* "[tick]" is the backtick. In the HTML the markup the renderer writes is   *)
(* one token for each tag or entity ("<code>", "&lt;", "<a href=\"", ...),   *)
(* no character of which is a delimiter of a later pattern.                  *)

MaxInlineLen == 3       \* characters of a text without a link
MaxAround == 1          \* characters before and after a link

InlineChars == {"a", "[tick]", "*", "[", "]", "(", ")", "\"", "<"}

StringsUpTo(n, chars) == UNION { [1..k -> chars] : k \in 0..n }

(* the destinations of the links: "u" stands in no other place of a text *)
LinkUrls == { <<"u">>, <<"u", "\"">> }

LinkMarkdown(url) == <<"[", "a", "]", "(">> \o url \o <<")">>

InlineTexts ==
    StringsUpTo(MaxInlineLen, InlineChars)
    \cup { before \o LinkMarkdown(url) \o after :
              before \in StringsUpTo(MaxAround, InlineChars),
              after \in StringsUpTo(MaxAround, InlineChars),
              url \in LinkUrls }

StartsWithAt(str, i, pat) ==
    /\ i + Len(pat) - 1 <= Len(str)
    /\ SubSeq(str, i, i + Len(pat) - 1) = pat

(* the index after the longest run of characters outside `excl` from i on *)
RECURSIVE RunEnd(_, _, _)
RunEnd(str, i, excl) ==
    IF i <= Len(str) /\ str[i] \notin excl THEN RunEnd(str, i + 1, excl) ELSE i

NoSpan == [ok |-> FALSE, from |-> 0, to |-> 0, end |-> 0]

(* open, one or more characters outside `excl`, close, tried at i; close     *)
(* begins with a character of `excl`, so the run is the longest one          *)
DelimitedAt(str, i, open, excl, close) ==
    IF StartsWithAt(str, i, open)
    THEN LET from == i + Len(open)
             e == RunEnd(str, from, excl)
         IN  IF e > from /\ StartsWithAt(str, e, close)
             THEN [ok |-> TRUE, from |-> from, to |-> e - 1, end |-> e + Len(close) - 1]
             ELSE NoSpan
    ELSE NoSpan

(* html.replace of a delimited pattern by tagOpen $1 tagClose, flag g *)
RECURSIVE ReplaceDelimited(_, _, _, _, _, _, _)
ReplaceDelimited(str, i, open, excl, close, tagOpen, tagClose) ==
    IF i > Len(str) THEN <<>>
    ELSE LET m == DelimitedAt(str, i, open, excl, close)
         IN  IF m.ok
             THEN <<tagOpen>> \o SubSeq(str, m.from, m.to) \o <<tagClose>>
                  \o ReplaceDelimited(str, m.end + 1, open, excl, close, tagOpen, tagClose)
             ELSE <<str[i]>>
                  \o ReplaceDelimited(str, i + 1, open, excl, close, tagOpen, tagClose)

(* the link pattern tried at i: "[", characters other than "]", "](",        *)
(* characters other than ")", ")"                                            *)
LinkAt(str, i) ==
    LET label == DelimitedAt(str, i, <<"[">>, {"]"}, <<"]", "(">>)
        from == label.end + 1
        e == RunEnd(str, from, {")"})
    IN  IF label.ok /\ e > from /\ e <= Len(str)
        THEN [ok |-> TRUE, label |-> SubSeq(str, label.from, label.to),
              url |-> SubSeq(str, from, e - 1), end |-> e]
        ELSE [ok |-> FALSE, label |-> <<>>, url |-> <<>>, end |-> 0]

(* '<a href="$2">$1</a>' *)
LinkAsAnchor(label, url) == <<"<a href=\"">> \o url \o <<"\">">> \o label \o <<"</a>">>

(* $1 *)
LinkAsText(label, url) == label

(* replace of the link pattern, flag g, by the anchor or by the text *)
RECURSIVE ReplaceLinks(_, _, _)
ReplaceLinks(str, i, replacement) ==
    IF i > Len(str) THEN <<>>
    ELSE LET m == LinkAt(str, i)
         IN  IF m.ok
             THEN (IF replacement = "anchor"
                   THEN LinkAsAnchor(m.label, m.url) ELSE LinkAsText(m.label, m.url))
                  \o ReplaceLinks(str, m.end + 1, replacement)
             ELSE <<str[i]>> \o ReplaceLinks(str, i + 1, replacement)

(* the three replace calls on "&", "<" and ">" *)
EscapeHtml(text) ==
    [k \in 1..Len(text) |->
        CASE text[k] = "&" -> "&amp;"
          [] text[k] = "<" -> "&lt;"
          [] text[k] = ">" -> "&gt;"
          [] OTHER -> text[k]]

inlineMarkdownToHtml(text) ==
    IF text = <<>> THEN <<>>
    ELSE LET escaped == EscapeHtml(text)
             coded == ReplaceDelimited(escaped, 1, <<"[tick]">>, {"[tick]"}, <<"[tick]">>,
                                       "<code>", "</code>")
             bolded == ReplaceDelimited(coded, 1, <<"*", "*">>, {"*"}, <<"*", "*">>,
                                        "<strong>", "</strong>")
             slanted == ReplaceDelimited(bolded, 1, <<"*">>, {"*"}, <<"*">>, "<em>", "</em>")
         IN  ReplaceLinks(slanted, 1, "anchor")

(* the alternatives of the segment pattern, in their order, tried at i *)
SegmentAt(text, i) ==
    LET code == DelimitedAt(text, i, <<"[tick]">>, {"[tick]"}, <<"[tick]">>)
        bold == DelimitedAt(text, i, <<"*", "*">>, {"*"}, <<"*", "*">>)
        italic == DelimitedAt(text, i, <<"*">>, {"*"}, <<"*">>)
        plainEnd == RunEnd(text, i, {"[tick]", "*"})
    IN  IF code.ok THEN code.end
        ELSE IF bold.ok THEN bold.end
        ELSE IF italic.ok THEN italic.end
        ELSE IF plainEnd > i THEN plainEnd - 1
        ELSE 0

(* the run pushed for a segment: the tests on how it starts and ends *)
RunOf(segment) ==
    LET n == Len(segment)
    IN  IF segment[1] = "[tick]" /\ segment[n] = "[tick]"
        THEN <<[text |-> SubSeq(segment, 2, n - 1), style |-> "code"]>>
        ELSE IF StartsWithAt(segment, 1, <<"*", "*">>) /\ StartsWithAt(segment, n - 1, <<"*", "*">>)
        THEN <<[text |-> SubSeq(segment, 3, n - 2), style |-> "bold"]>>
        ELSE IF segment[1] = "*" /\ segment[n] = "*"
        THEN <<[text |-> SubSeq(segment, 2, n - 1), style |-> "italic"]>>
        ELSE LET linkStripped == ReplaceLinks(segment, 1, "text")
             IN  IF linkStripped # <<>>
                 THEN <<[text |-> linkStripped, style |-> "plain"]>>
                 ELSE <<>>

(* the loop over regex.exec(text): a match is looked for from lastIndex on,  *)
(* the characters before it are passed over                                  *)
RECURSIVE ExecSegments(_, _)
ExecSegments(text, i) ==
    IF i > Len(text) THEN <<>>
    ELSE LET end == SegmentAt(text, i)
         IN  IF end = 0 THEN ExecSegments(text, i + 1)
             ELSE RunOf(SubSeq(text, i, end)) \o ExecSegments(text, end + 1)

parseInlineMarkdown(text) ==
    IF text = <<>> THEN <<[text |-> <<>>, style |-> "plain"]>>
    ELSE LET found == ExecSegments(text, 1)
         IN  IF found = <<>> THEN <<[text |-> text, style |-> "plain"]>> ELSE found

NotRendered == [done |-> FALSE, out |-> <<>>]

InitInline ==
    /\ inlineText \in InlineTexts
    /\ html = NotRendered
    /\ runs = NotRendered
    /\ badges = NoBadges
    /\ call = NoCall
    /\ slicing = NoSlicing
    /\ filePc = "editing"
    /\ edited = EmptyIssue
    /\ fileContent = <<>>
    /\ parsed = EmptyIssue
    /\ issues = <<>>
    /\ sortEngine = "linear"
    /\ grouped = <<>>
    /\ preview = <<>>
    /\ docx = NoDocx
    /\ NoPdf
    /\ NoExport
    /\ NoList

(* the preview shows the field *)
RenderHtml ==
    /\ ~html.done
    /\ html' = [done |-> TRUE, out |-> inlineMarkdownToHtml(inlineText)]
    /\ UNCHANGED <<inlineText, runs, badges, call, slicing, filePc, edited, fileContent, parsed,
                   pdfVars, appVars, exportVars, listVars>>

(* the DOCX is built with the field *)
RenderRuns ==
    /\ ~runs.done
    /\ runs' = [done |-> TRUE, out |-> parseInlineMarkdown(inlineText)]
    /\ UNCHANGED <<inlineText, html, badges, call, slicing, filePc, edited, fileContent, parsed,
                   pdfVars, appVars, exportVars, listVars>>

NextInline == RenderHtml \/ RenderRuns

SpecInline == InitInline /\ [][NextInline]_vars

-----------------------------------------------------------------------------
(* Properties of the inline markdown renderers *)

(* the characters of the runs, each with the style of its run *)
RECURSIVE StyledChars(_)
StyledChars(rs) ==
    IF rs = <<>> THEN <<>>
    ELSE [k \in 1..Len(Head(rs).text) |->
             [char |-> Head(rs).text[k],
              styles |-> IF Head(rs).style = "plain" THEN {} ELSE {Head(rs).style}]]
         \o StyledChars(Tail(rs))

StyleOfTag(tag) ==
    CASE tag \in {"<code>", "</code>"} -> "code"
      [] tag \in {"<strong>", "</strong>"} -> "bold"
      [] tag \in {"<em>", "</em>"} -> "italic"

OpeningTags == {"<code>", "<strong>", "<em>"}
ClosingTags == {"</code>", "</strong>", "</em>"}

Unescaped(token) ==
    CASE token = "&amp;" -> "&"
      [] token = "&lt;" -> "<"
      [] token = "&gt;" -> ">"
      [] OTHER -> token

(* the text characters of the markup as a browser shows them, each with the  *)
(* styles of the elements open around it; the destination of a link is an    *)
(* attribute and no text, and the text of a link counts as it is styled      *)
RECURSIVE HtmlStyledChars(_, _, _)
HtmlStyledChars(tokens, open, inHref) ==
    IF tokens = <<>> THEN <<>>
    ELSE LET t == Head(tokens)
             rest == Tail(tokens)
         IN  IF inHref THEN HtmlStyledChars(rest, open, t # "\">")
             ELSE IF t = "<a href=\"" THEN HtmlStyledChars(rest, open, TRUE)
             ELSE IF t = "</a>" THEN HtmlStyledChars(rest, open, FALSE)
             ELSE IF t \in OpeningTags THEN HtmlStyledChars(rest, open \cup {StyleOfTag(t)}, FALSE)
             ELSE IF t \in ClosingTags THEN HtmlStyledChars(rest, open \ {StyleOfTag(t)}, FALSE)
             ELSE <<[char |-> Unescaped(t), styles |-> open]>>
                  \o HtmlStyledChars(rest, open, FALSE)

(* C16: the markup of inlineMarkdownToHtml and the runs of                   *)
(* parseInlineMarkdown for one text hold the same characters in the same     *)
(* order, each in the same style (code, bold, italic or none).               *)
C16_SameContent ==
    (html.done /\ runs.done) =>
        HtmlStyledChars(html.out, {}, FALSE) = StyledChars(runs.out)

Contains(str, token) == \E k \in 1..Len(str) : str[k] = token

(* C17: a text with a link [a](u...) is rendered without its destination     *)
(* and without a hyperlink: the markup holds no anchor element and no        *)
(* character of the destination, and no run holds one.                       *)
C17_LinkTextOnly ==
    Contains(inlineText, "u") =>
        /\ html.done => ~Contains(html.out, "u") /\ ~Contains(html.out, "<a href=\"")
        /\ runs.done => \A r \in 1..Len(runs.out) : ~Contains(runs.out[r].text, "u")

(* the end of the attribute value that opens at token k: the next token that *)
(* holds a quotation mark                                                    *)
HrefEnd(out, k) ==
    CHOOSE e \in (k + 1)..Len(out) :
        /\ out[e] \in {"\"", "\">"}
        /\ \A j \in (k + 1)..(e - 1) : out[j] \notin {"\"", "\">"}

(* C18: the markup holds no "<" or ">" of the text, and the value of every   *)
(* href attribute ends where the renderer ends it, so that the text adds no  *)
(* element and no attribute.                                                 *)
C18_HtmlSafe ==
    html.done =>
        /\ ~Contains(html.out, "<") /\ ~Contains(html.out, ">")
        /\ \A k \in 1..Len(html.out) :
              html.out[k] = "<a href=\"" => html.out[HrefEnd(html.out, k)] = "\">"

-----------------------------------------------------------------------------
(* An export of the PDF with a page translation or the read of an upload in  *)
(* flight: generatePdf holds the .issue-page elements of the preview, which  *)
(* React updates in place                                                    *)

(* the preview with what its pages show: the TOC the titles of its entries,  *)
(* an issue page the title of its issue                                      *)
LivePreview(list) ==
    LET pages == RenderPreview(GroupedMemo(list))
        titleOf(id) == IssueWithId(list, id).title
    IN  [k \in 1..Len(pages) |->
            [isToc |-> pages[k].isToc, issueId |-> pages[k].issueId,
             tocItems |-> pages[k].tocItems,
             shown |-> IF pages[k].isToc
                       THEN [i \in 1..Len(pages[k].tocItems) |-> titleOf(pages[k].tocItems[i])]
                       ELSE <<titleOf(pages[k].issueId)>>]]

(* the elements of a NodeList after a commit: an element whose key is still  *)
(* rendered shows the new content, one that was removed stays as it was      *)
Reconciled(nodes, rendered) ==
    [k \in 1..Len(nodes) |->
        IF \E j \in 1..Len(rendered) : rendered[j].issueId = nodes[k].issueId
        THEN rendered[CHOOSE j \in 1..Len(rendered) : rendered[j].issueId = nodes[k].issueId]
        ELSE nodes[k]]

(* the loop of generatePdf is at a unit *)
InLoop == pc \in {"paint", "settle", "raster"}

InitLive ==
    /\ issues = <<IssueOf(CHOOSE u \in ParsedUploads : TRUE, 1), IssueOf(BlankPage("Web"), 2)>>
    /\ files = [k \in 1..Len(issues) |-> FileEntryFor(k, k = 2)]
    /\ originals = [id \in IssueIdsOf(issues) |-> SnapshotOf(issues[id])]
    /\ nextIssueId = Len(issues) + 1
    /\ uploads \in {<<>>, <<[left |-> 1, newFiles |-> <<>>, newIssues |-> <<>>]>>}
    /\ storage = NoSaved
    /\ saveTimer = ArmedTimer(files, issues, originals)
    /\ translating \in {<<>>} \cup
           { <<[issueId |-> issues[k]._id, title |-> issues[k].title,
                extraRows |-> issues[k].extraRows]>> : k \in 1..Len(issues) }
    /\ sortEngine = "linear"
    /\ grouped = GroupedMemo(issues)
    /\ preview = LivePreview(issues)
    /\ issuePages = preview
    /\ docx = NoDocx
    /\ pc = "idle"
    /\ idx = 0
    /\ layoutHeight = 0
    /\ currentPdfPage = 0
    /\ elementPageStarts = <<>>
    /\ tocStartPage = 0
    /\ tocPagesUsed = 0
    /\ tocLinks = <<>>
    /\ canvases = <<>>
    /\ pdf = <<>>
    /\ issueIdToPage = <<>>
    /\ annotations = <<>>
    /\ surface = "none"
    /\ saved = FALSE
    /\ container = <<>>
    /\ NoFile
    /\ NoExport

(* the commit that follows setIssues: the memo, the preview, and the         *)
(* elements generatePdf holds (or will query) with it                        *)
Rerendered ==
    /\ grouped' = GroupedMemo(issues')
    /\ preview' = LivePreview(issues')
    /\ issuePages' = IF pc = "idle" THEN preview' ELSE Reconciled(issuePages, preview')
    /\ saveTimer' = ArmedTimer(files', issues', originals')
    /\ UNCHANGED <<sortEngine, docx, pdfRest, fileVars, exportVars, storage>>

(* the awaits of a translateIssuePage call are over while generatePdf is at  *)
(* one of its awaits                                                         *)
TranslationLands ==
    \E t \in 1..Len(translating) :
        \E res \in FieldOutcomes(translating[t].title),
           rows \in RowOutcomes(translating[t].extraRows) :
            /\ InLoop
            /\ issues' = Translated(t, res, rows)
            /\ translating' = RemoveAt(translating, t)
            /\ UNCHANGED <<files, originals, nextIssueId, uploads>>
            /\ Rerendered

(* the file.text() of an upload of one file resolves while generatePdf is at *)
(* one of its awaits: processFiles appends the parsed issue                  *)
UploadLands ==
    \E u \in 1..Len(uploads), content \in ParsedUploads :
        LET issue == IssueOf(content, nextIssueId)
        IN  /\ InLoop
            /\ uploads[u].left = 1
            /\ nextIssueId <= MaxIssueId
            /\ nextIssueId' = nextIssueId + 1
            /\ files' = Append(files, FileEntryFor(nextIssueId, FALSE))
            /\ issues' = Append(issues, issue)
            /\ originals' = WithOriginal(originals, nextIssueId, SnapshotOf(issue))
            /\ uploads' = RemoveAt(uploads, u)
            /\ UNCHANGED translating
            /\ Rerendered

NextLive ==
    \/ GeneratePdfStart \/ Painted \/ Settled \/ Rasterized
    \/ TranslationLands \/ UploadLands

SpecLive == InitLive /\ [][NextLive]_vars

(* C25: while generatePdf runs, a change of the issue list changes none of   *)
(* the units it has still to render: every element after the one on the      *)
(* surface shows what it showed before the change.                           *)
C25_ExportIsolated ==
    [][InLoop => \A k \in (idx + 1)..Len(issuePages) : issuePages'[k] = issuePages[k]]_vars

-----------------------------------------------------------------------------
(* Clear All and the auto-save: the list is changed by clearAll only, and    *)
(* the page may be loaded again                                              *)

(* what the auto-save has written of a state *)
SavedOf(f, i, o, n) ==
    [present |-> TRUE, files |-> f, issues |-> i, originals |-> o, nextIssueId |-> n]

InitClear ==
    /\ \E base \in EditLists :
          /\ issues \in { [k \in 1..Len(base) |-> [base[k] EXCEPT !.title = titles[k]]] :
                            titles \in [1..Len(base) ->
                                          UNION { {base[k].title} \cup TypedValues("title") :
                                                    k \in 1..Len(base) }] }
          /\ originals = [id \in IssueIdsOf(base) |-> SnapshotOf(base[id])]
    /\ files = [k \in 1..Len(issues) |-> FileEntryFor(k, k = 2)]
    /\ nextIssueId \in (Len(issues) + 1)..(MaxIssueId + 1)
    /\ uploads = <<>>
    /\ storage \in {NoSaved, SavedOf(files, issues, originals, nextIssueId)}
    /\ saveTimer \in {NoTimer, ArmedTimer(files, issues, originals)}
    /\ translating = <<>>
    /\ sortEngine = "linear"
    /\ grouped = <<>>
    /\ preview = <<>>
    /\ docx = NoDocx
    /\ NoFile
    /\ NoPdf
    /\ NoExport

NextClear == ClearAll \/ AutoSaveFires \/ AutoSaveFails \/ Reload

SpecClear == InitClear /\ [][NextClear]_vars

(* C26: once Clear All has emptied the list, and as long as nothing else     *)
(* changes files, issues or the target language, no saved data is in the     *)
(* storage: the auto-save that the clearing sets off writes nothing back.    *)
C26_ClearedStaysAbsent ==
    (issues = <<>> /\ files = <<>>) => ~storage.present

-----------------------------------------------------------------------------
(* Properties of the three parallel collections                              *)

(* C28: files and issues have the same length, files[i] is the entry that   *)
(* was made together with issues[i], and originals has a key for the _id of  *)
(* every issue of the list and for no other, after uploads that may overlap, *)
(* page additions, removeFile, Clear All, saves and reloads.                 *)
C28_ParallelCollections ==
    /\ Len(files) = Len(issues)
    /\ \A i \in 1..Len(issues) : files[i].createdWith = issues[i]._id
    /\ DOMAIN originals = IssueIdsOf(issues)

(* two files were uploaded, the first was removed and a page was added while *)
(* another upload is being read                                              *)
C28_Witness ==
    /\ Len(issues) = 2
    /\ issues[1]._id = 2
    /\ issues[2]._id = 3
    /\ files[2].isManual
    /\ ~files[1].isManual
    /\ Len(uploads) = 1

-----------------------------------------------------------------------------
(* addCanvasToPdf, statement by statement, on canvases of any size           *)

MaxCanvasWidth == 3
MaxCanvasHeight == 8

CanvasSizes ==
    [width : (0..MaxCanvasWidth) \cup {RENDER_WIDTH_PX * SCALE},
     height : 0..MaxCanvasHeight]

InitSlice ==
    /\ slicing \in { [NoSlicing EXCEPT !.pc = "called", !.canvas = c] : c \in CanvasSizes }
    /\ issues = <<>>
    /\ sortEngine = "linear"
    /\ grouped = <<>>
    /\ preview = <<>>
    /\ docx = NoDocx
    /\ badges = NoBadges
    /\ call = NoCall
    /\ filePc = "editing"
    /\ edited = EmptyIssue
    /\ fileContent = <<>>
    /\ parsed = EmptyIssue
    /\ inlineText = <<>>
    /\ html = NotRendered
    /\ runs = NotRendered
    /\ NoPdf
    /\ NoExport
    /\ NoList

sliceRest == <<filePc, edited, fileContent, parsed, inlineText, html, runs, badges, call,
               pdfVars, appVars, exportVars, listVars>>

(* the function is entered: the single-page branch returns 1, unless jsPDF   *)
(* refuses the empty image of a canvas without rows; the other branch sets   *)
(* srcY and pageIndex to 0                                                   *)
AddCanvasEnter ==
    /\ slicing.pc = "called"
    /\ IF FitsOnePage(slicing.canvas)
       THEN \/ slicing' = [slicing EXCEPT !.pc = "returned", !.result = 1]
            \/ /\ slicing.canvas.height = 0
               /\ slicing' = [slicing EXCEPT !.pc = "thrown"]
       ELSE slicing' = [slicing EXCEPT !.pc = "loop", !.srcY = 0, !.pageIndex = 0]
    /\ UNCHANGED sliceRest

(* one iteration of while (srcY < canvasHeight); drawImage throws            *)
(* InvalidStateError for a source canvas without columns                     *)
SliceIteration ==
    /\ slicing.pc = "loop"
    /\ slicing.srcY < slicing.canvas.height
    /\ IF slicing.canvas.width = 0
       THEN slicing' = [slicing EXCEPT !.pc = "thrown"]
       ELSE LET remainingPx == slicing.canvas.height - slicing.srcY
                thisStripPx == ThisStripPx(StripHeightPx(slicing.canvas.width), remainingPx)
            IN  slicing' = [slicing EXCEPT !.srcY = @ + thisStripPx, !.pageIndex = @ + 1]
    /\ UNCHANGED sliceRest

(* the loop ends: return pageIndex *)
SliceReturn ==
    /\ slicing.pc = "loop"
    /\ ~(slicing.srcY < slicing.canvas.height)
    /\ slicing' = [slicing EXCEPT !.pc = "returned", !.result = slicing.pageIndex]
    /\ UNCHANGED sliceRest

NextSlice == AddCanvasEnter \/ SliceIteration \/ SliceReturn

(* the function is synchronous: a statement that can run does run *)
SpecSlice == InitSlice /\ [][NextSlice]_vars /\ WF_vars(NextSlice)

(* C29, as it holds: for every canvas at least one pixel wide addCanvasToPdf *)
(* comes to an end; every iteration of the slicing loop moves the source row *)
(* down by at least one pixel and never past the last row, and the number of *)
(* pages it returns is at least 1.                                           *)
C29_PositiveWidthTerminates ==
    /\ [](slicing.canvas.width >= 1 =>
            /\ slicing.srcY <= slicing.canvas.height
            /\ slicing.pc = "returned" => slicing.result >= 1
            /\ slicing.pc = "thrown" => slicing.canvas.height = 0)
    /\ [][(slicing.canvas.width >= 1 /\ slicing.pc = "loop" /\ slicing'.pc = "loop")
              => slicing'.srcY >= slicing.srcY + 1]_vars
    /\ <>(slicing.pc \in {"returned", "thrown"})

(* a canvas one pixel wide and as high as the bound was cut into strips of   *)
(* one row                                                                   *)
C29_Witness ==
    /\ slicing.pc = "returned"
    /\ slicing.canvas.width = 1
    /\ slicing.canvas.height = MaxCanvasHeight
    /\ slicing.result = MaxCanvasHeight

(* C29 as stated: for every width and height, zero included, the number of   *)
(* pages returned is at least 1.                                             *)
C29_EverySizeReturnsPages ==
    slicing.pc = "returned" => slicing.result >= 1

-----------------------------------------------------------------------------
(* The export with its scheduling: a promise that is awaited settles, and    *)
(* the code that waits for it then runs, and React renders a state that was  *)
(* set. The user is not bound to click.                                      *)

PdfAwaitSettles == Painted \/ Settled \/ Rasterized \/ RasterizeFails \/ AssemblyFails

DocxAwaitSettles == DocxPacked \/ DocxPackFails

SpecExportFair ==
    /\ InitExport
    /\ [][NextExport]_vars
    /\ WF_vars(PdfAwaitSettles)
    /\ WF_vars(ExportPdfSettled)
    /\ WF_vars(DocxAwaitSettles)
    /\ WF_vars(ExportDocxSettled)
    /\ WF_vars(RenderButtons)

(* C30: every export of the PDF or of the DOCX that has started comes to its *)
(* end with generating false again, when the document was saved and when a   *)
(* step failed.                                                              *)
C30_ExportEnds ==
    /\ (pc # "idle") ~> (pc = "idle" /\ ~generating)
    /\ (docxPc # "idle") ~> (docxPc = "idle" /\ ~generating)
    /\ generating ~> ~generating

(* an export of the PDF failed at its second unit and has ended *)
C30_Witness ==
    /\ pc = "idle"
    /\ idx = 2
    /\ surface = "removed"
    /\ ~saved
    /\ reported
    /\ ~generating
    /\ exporting = 0

-----------------------------------------------------------------------------
(* Properties of the order of the steps of generatePdf                       *)

(* C24: generatePdf handles the units one at a time, in the order of the    *)
(* preview: a unit is put on the render surface only when the canvas of      *)
(* every unit before it is in the PDF and of no other; the links of the TOC  *)
(* unit are measured in the step from the settle delay to the rasterization, *)
(* on the clone that is on the surface, and the canvas that follows is       *)
(* rendered from the same surface and the same layout.                       *)
C24_OneUnitAtATime ==
    [][/\ InLoop' =>
            /\ idx' \in 1..Len(issuePages')
            /\ container' = <<stylePage(cloneNode(issuePages'[idx']))>>
            /\ Len(canvases') = idx' - 1
            /\ Len(elementPageStarts') = idx'
       /\ container' # container => (idx' = 1 /\ pc = "idle") \/ (idx' = idx + 1 /\ pc = "raster")
       /\ (InLoop /\ canvases' # canvases) =>
            /\ pc = "raster"
            /\ canvases' = Append(canvases, renderToCanvas(layoutHeight))
       /\ (pc = "settle" /\ issuePages[idx].isToc) =>
            /\ pc' = "raster"
            /\ tocLinks' \in measureTocLinks(container[1], layoutHeight)
            /\ container' = container
            /\ layoutHeight' = layoutHeight
       /\ tocLinks' # tocLinks => pc = "settle" /\ issuePages[idx].isToc
       /\ pc = "raster" => tocLinks' = tocLinks]_vars

(* three units went through the loop, the TOC with two measured links *)
C24_Witness ==
    /\ pc = "done"
    /\ Len(issuePages) = 3
    /\ Len(canvases) = 3
    /\ Len(tocLinks) = 2
    /\ saved

-----------------------------------------------------------------------------
(* Properties of the page translation                                        *)

(* C22: when a page translation ends, every field and every extra-row title *)
(* whose request was fulfilled holds its translation, every one whose        *)
(* request was rejected is left with its value (a field is not written, a    *)
(* row keeps the title it had when the translation started), and the issue   *)
(* is no longer marked as translating.                                       *)
C22_PartialFailure ==
    [][\A t \in 1..Len(translating) :
         \A res \in FieldOutcomes(translating[t].title),
            rows \in RowOutcomes(translating[t].extraRows) :
             (/\ translating[t].issueId \in IssueIdsOf(issues)
              /\ TranslateDoneWith(t, res, rows))
             => LET job == translating[t]
                    before == IssueWithId(issues, job.issueId)
                    after == IssueWithId(issues', job.issueId)
                IN  /\ after.title = (IF res.fulfilled THEN res.translated ELSE before.title)
                    /\ after.title # Rejected
                    /\ \A i \in 1..Len(job.extraRows) :
                          /\ i <= Len(after.extraRows)
                          /\ after.extraRows[i].title =
                                 (IF rows[i].fulfilled THEN rows[i].translated.title
                                                       ELSE job.extraRows[i].title)
                          /\ after.extraRows[i].severity = job.extraRows[i].severity
                    /\ \A u \in 1..Len(translating') :
                          translating'[u].issueId # job.issueId]_vars

(* a page translation ended whose title request was rejected and whose row  *)
(* request was fulfilled                                                     *)
C22_Witness ==
    /\ translating = <<>>
    /\ Len(issues) >= 1
    /\ issues[1].title = "a"
    /\ Len(issues[1].extraRows) = 1
    /\ issues[1].extraRows[1].title = "T"
    /\ ~issues[1].sharesRows
    /\ originals[1].extraRows = <<[title |-> "a", severity |-> "High"]>>

-----------------------------------------------------------------------------
(* part_000 (translate.ts): translateText, and its caller handleTranslate    *)

MaxCallLen == 2

CallChars == {" ", "\n", "a"}

(* the texts and the names of target languages that are passed *)
CallTexts == UNION { [1..n -> CallChars] : n \in 0..MaxCallLen }

(* translateText with the check of the target language left out *)
translateTextUnchecked(text, targetLanguage, available) ==
    IF ~available
    THEN [status |-> "returned", value |-> text, error |-> "", request |-> FALSE]
    ELSE IF text = <<>> \/ Trim(text) = <<>>
    THEN [status |-> "returned", value |-> text, error |-> "", request |-> FALSE]
    ELSE [status |-> "none", value |-> <<>>, error |-> "", request |-> TRUE]

(* translateText up to client.chat.completions.create: what it returns or    *)
(* throws before it, or that the request is made                             *)
translateText(text, targetLanguage, available) ==
    IF ~available
    THEN [status |-> "returned", value |-> text, error |-> "", request |-> FALSE]
    ELSE IF text = <<>> \/ Trim(text) = <<>>
    THEN [status |-> "returned", value |-> text, error |-> "", request |-> FALSE]
    ELSE IF targetLanguage = <<>> \/ Trim(targetLanguage) = <<>>
    THEN [status |-> "thrown", value |-> <<>>, error |-> "Target language is required",
          request |-> FALSE]
    ELSE [status |-> "none", value |-> <<>>, error |-> "", request |-> TRUE]

(* response.choices[0]?.message?.content of the answers of the service *)
ResponseContents == { <<>>, <<" ">>, <<"T">>, <<"T", "\n">> }

InitCall ==
    /\ call \in { [NoCall EXCEPT !.available = av, !.text = text, !.targetLanguage = lang] :
                    av \in BOOLEAN, text \in CallTexts, lang \in CallTexts }
    /\ issues = <<>>
    /\ sortEngine = "linear"
    /\ grouped = <<>>
    /\ preview = <<>>
    /\ docx = NoDocx
    /\ badges = NoBadges
    /\ slicing = NoSlicing
    /\ filePc = "editing"
    /\ edited = EmptyIssue
    /\ fileContent = <<>>
    /\ parsed = EmptyIssue
    /\ inlineText = <<>>
    /\ html = NotRendered
    /\ runs = NotRendered
    /\ NoPdf
    /\ NoExport
    /\ NoList

callRest == <<filePc, edited, fileContent, parsed, inlineText, html, runs, badges, slicing,
              pdfVars, appVars, exportVars, listVars>>

(* the call goes on with the outcome `out` of translateText's first part *)
Called(via, out) ==
    call' = [call EXCEPT
               !.via = via,
               !.pc = IF out.request THEN "awaiting" ELSE "done",
               !.status = out.status,
               !.value = out.value,
               !.error = out.error,
               !.requests = IF out.request THEN @ + 1 ELSE @]

(* translateText is called with the arguments as they are *)
CallTranslateText ==
    /\ call.pc = "idle"
    /\ Called("translateText", translateText(call.text, call.targetLanguage, call.available))
    /\ UNCHANGED callRest

(* handleTranslate(text), with the target language of the state *)
HandleTranslate ==
    /\ call.pc = "idle"
    /\ IF ~call.available
       THEN call' = [call EXCEPT !.via = "handleTranslate", !.pc = "done",
                                 !.status = "returned", !.value = call.text]
       ELSE IF Trim(call.targetLanguage) = <<>>
       THEN call' = [call EXCEPT !.via = "handleTranslate", !.pc = "done",
                                 !.status = "returned", !.value = call.text,
                                 !.alerts = @ + 1]
       ELSE Called("handleTranslate",
                   translateText(call.text, call.targetLanguage, call.available))
    /\ UNCHANGED callRest

(* the service answers with a content, which may be empty, or the request    *)
(* fails: the catch block logs the error and throws it again                 *)
ServiceAnswers ==
    /\ call.pc = "awaiting"
    /\ \/ \E content \in ResponseContents :
            call' = [call EXCEPT
                       !.pc = "done",
                       !.status = IF Trim(content) = <<>> THEN "thrown" ELSE "returned",
                       !.value = Trim(content),
                       !.error = IF Trim(content) = <<>>
                                 THEN "No translation received from OpenAI" ELSE ""]
       \/ call' = [call EXCEPT !.pc = "done", !.status = "thrown", !.error = "APIError"]
    /\ UNCHANGED callRest

NextCall == CallTranslateText \/ HandleTranslate \/ ServiceAnswers

SpecCall == InitCall /\ [][NextCall]_vars

(* C23, as it holds: with the service available, a call of translateText     *)
(* with an empty or whitespace-only text returns the text unchanged, a call  *)
(* with a text that is not blank and an empty or whitespace-only target      *)
(* language throws an error, and neither makes a request to the service.     *)
C23_GuardsBeforeService ==
    (call.available /\ call.via = "translateText") =>
        /\ Trim(call.text) = <<>> =>
               /\ call.pc = "done" /\ call.status = "returned" /\ call.value = call.text
               /\ call.requests = 0
        /\ (Trim(call.text) # <<>> /\ Trim(call.targetLanguage) = <<>>) =>
               /\ call.pc = "done" /\ call.status = "thrown"
               /\ call.error = "Target language is required"
               /\ call.requests = 0

(* translateText was called with a text and a whitespace-only language and   *)
(* threw                                                                     *)
C23_Witness ==
    /\ call.available /\ call.via = "translateText" /\ call.pc = "done"
    /\ call.text = <<"a">> /\ call.targetLanguage = <<" ">>
    /\ call.status = "thrown" /\ call.requests = 0

(* C23 as stated: an empty or whitespace-only target language is rejected    *)
(* with an error whatever the text is.                                       *)
C23_RejectsWhateverText ==
    (call.available /\ call.via = "translateText" /\ Trim(call.targetLanguage) = <<>>) =>
        call.status = "thrown" /\ call.requests = 0

(* C27: when a page translation ends, a field of the issue that was edited  *)
(* after the translation started holds the value of the edit: the title, and *)
(* the extra rows, are overwritten only if they are as they were at the      *)
(* start.                                                                    *)
C27_EditsSurvive ==
    [][\A t \in 1..Len(translating) :
         (/\ translating' = RemoveAt(translating, t)
          /\ translating[t].issueId \in IssueIdsOf(issues)
          /\ translating[t].issueId \in IssueIdsOf(issues'))
         => LET job == translating[t]
                before == IssueWithId(issues, job.issueId)
                after == IssueWithId(issues', job.issueId)
            IN  /\ before.title # job.title => after.title = before.title
                /\ before.extraRows # job.extraRows => after.extraRows = before.extraRows
                /\ after.findingId = before.findingId]_vars

-----------------------------------------------------------------------------
(* The severity colours: getSeverityColor (parseIssue.ts) and                *)
(* getSeverityColorHex, getSeverityFontColor (generateDocx)                  *)

(* switch ((severity || "").toLowerCase()) *)
getSeverityColor(severity) ==
    LET s == ToLowerCase(severity)
    IN  CASE s = "critical" -> [bg |-> "#8b0000", text |-> "#ffffff"]
          [] s = "high" -> [bg |-> "#e74c3c", text |-> "#ffffff"]
          [] s = "medium" -> [bg |-> "#fd7e14", text |-> "#ffffff"]
          [] s = "low" -> [bg |-> "#a8d08d", text |-> "#333333"]
          [] s \in {"info", "informational"} -> [bg |-> "#17a2b8", text |-> "#ffffff"]
          [] OTHER -> [bg |-> "#6c757d", text |-> "#ffffff"]

getSeverityColorHex(severity) ==
    LET s == ToLowerCase(severity)
    IN  CASE s = "critical" -> "8B0000"
          [] s = "high" -> "E74C3C"
          [] s = "medium" -> "FD7E14"
          [] s = "low" -> "A8D08D"
          [] s \in {"info", "informational"} -> "17A2B8"
          [] OTHER -> "6C757D"

getSeverityFontColor(severity) ==
    LET s == ToLowerCase(severity)
    IN  CASE s = "low" -> "333333"
          [] OTHER -> "FFFFFF"

(* the severities of the issues whose badges are drawn *)
BadgeSeverities == Risks \cup {"info"}

BadgeLists ==
    UNION { { [k \in 1..n |-> [_id |-> k, category |-> "Web", overallRisk |-> rs[k]]] :
                rs \in [1..n -> BadgeSeverities] } :
            n \in 1..MaxList }

InitBadge ==
    /\ issues \in BadgeLists
    /\ sortEngine = "linear"
    /\ grouped = <<>>
    /\ preview = <<>>
    /\ docx = NoDocx
    /\ badges = NoBadges
    /\ call = NoCall
    /\ slicing = NoSlicing
    /\ filePc = "editing"
    /\ edited = EmptyIssue
    /\ fileContent = <<>>
    /\ parsed = EmptyIssue
    /\ inlineText = <<>>
    /\ html = NotRendered
    /\ runs = NotRendered
    /\ NoPdf
    /\ NoExport
    /\ NoList

badgeRest == <<filePc, edited, fileContent, parsed, inlineText, html, runs, call, slicing,
               pdfVars, appVars, exportVars, listVars>>

(* the preview draws the badge of every issue *)
ShowBadges ==
    /\ ~badges.shown
    /\ badges' = [badges EXCEPT
                    !.shown = TRUE,
                    !.preview = [k \in 1..Len(issues) |-> getSeverityColor(issues[k].overallRisk)]]
    /\ UNCHANGED badgeRest

(* the DOCX is built: the severity cell of every issue *)
BuildBadges ==
    /\ ~badges.built
    /\ badges' = [badges EXCEPT
                    !.built = TRUE,
                    !.docx = [k \in 1..Len(issues) |->
                                 [bg |-> getSeverityColorHex(issues[k].overallRisk),
                                  text |-> getSeverityFontColor(issues[k].overallRisk)]]]
    /\ UNCHANGED badgeRest

NextBadge == ShowBadges \/ BuildBadges

SpecBadge == InitBadge /\ [][NextBadge]_vars

(* the levels that are drawn with a light foreground *)
LightLevels == {"critical", "high", "medium", "info", "informational"}

(* C21: in the preview and in the DOCX the foreground of a severity badge is *)
(* light for critical, high, medium, info and informational, compared        *)
(* without case, and dark for low and for every other string.                *)
C21_ForegroundByLevel ==
    \A k \in 1..Len(issues) :
        LET light == ToLowerCase(issues[k].overallRisk) \in LightLevels
        IN  /\ badges.shown =>
                  badges.preview[k].text = (IF light THEN "#ffffff" ELSE "#333333")
            /\ badges.built =>
                  badges.docx[k].text = (IF light THEN "FFFFFF" ELSE "333333")

====
